---------------------------- MODULE Spec2Model ----------------------------
(***************************************************************************)
(* Model of rsb.util.OrderedQueueDispatcherPool (src/rsb/util.py): a pool  *)
(* of worker threads that dispatches pushed messages to registered         *)
(* receivers, one queue per registration; and of the Spread transport      *)
(* (src/rsb/rsbspread/__init__.py): AssemblyPool, which joins the fragments *)
(* of notifications, SpreadReceiverTask, the receive loop, and SpreadPort,  *)
(* the connector.                                                           *)
(*                                                                         *)
(* Threads of the pool: the workers 1..NumWorkers (method _worker), one    *)
(* client thread that calls unregister_receiver (it can block), one        *)
(* control thread that calls start and stop (the class requires these to   *)
(* be single-threaded), and anonymous client threads that call push and    *)
(* register_receiver (one critical section each).                          *)
(***************************************************************************)
EXTENDS Integers, Sequences, FiniteSets, TLC

\* thread_pool_size given to the constructor
NumWorkers == 2
\* number of _Receiver objects (registrations) created in one behaviour
MaxRegs == 2
\* number of push calls in one behaviour
MaxPush == 2
\* number of exceptions the filter and delivery functions raise in one behaviour
MaxRaise == 1
\* number of AssemblyPool.add calls in one behaviour
MaxAdds == 5
\* number of threads that call AssemblyPool.add
NumAdders == 2

Workers == 1..NumWorkers
RegIds == 1..MaxRegs
Receivers == {"rA", "rB"}
\* the filter functions a pool is constructed with: _true_filter (the
\* default), one that rejects everything, one that depends on both arguments
Filters == {"true", "false", "mixed"}
NoThread == 0
NoReg == 0
NoMsg == 0
\* no call of unregister_receiver is in progress
IdleUnregister == [pc |-> "idle", removed |-> NoReg, gone |-> {}, caller |-> NoThread]
\* threads calling AssemblyPool.add
Adders == 1..NumAdders
\* None where an Assembly object is expected
NoObject == 0

VARIABLES
    receivers,        \* self._receivers: list of registrations (object identities)
    regReceiver,      \* _Receiver.receiver of every registration object created
    nextReg,          \* number of _Receiver objects created so far
    queue,            \* _Receiver.queue
    processing,       \* _Receiver.processing
    jobsAvailable,    \* self._jobsAvailable
    started,          \* self._started
    interrupted,      \* self._interrupted
    currentPosition,  \* self._currentPosition
    threadPool,       \* self._threadPool
    filterFunc,       \* self._filter_func
    lock,             \* the worker holding the lock of self._condition, or NoThread
    pc,               \* position of every worker thread
    job,              \* local variable receiver of _worker
    msg,              \* local variable message of _worker
    unreg,            \* the thread calling unregister_receiver
    ctl,              \* the thread calling start and stop
    ctlResult,        \* how the last start or stop call ended
    pushCount,        \* number of push calls so far; the n-th push pushes message n
    raises,           \* number of exceptions raised by the filter and delivery functions
    regFrom,          \* per registration: the number of pushes before it was registered
    popped,           \* per registration: the messages taken from its queue, in order
    delivered,        \* per registration: the messages self._del_func was called with, in order
    late,             \* per worker: its message was taken from the queue of a registration already unregistered
    unregDone,        \* registrations removed by an unregister_receiver call that has returned
    passed,           \* per registration: the registrations that have been claimable and not
                      \* claimed ever since its last claim; kept only by ObservedClaim
    restarts,         \* the number of start() calls that started workers, and the messages
                      \* queued at the last of them that followed a stop(); kept only by
                      \* ObservedStart
    assemblies,       \* AssemblyPool.__assemblies: key -> Assembly object (its index in objects)
    objects,          \* the Assembly objects created so far: __requiredParts, __id, __parts
    adder,            \* the threads inside AssemblyPool.add: position and local variables
    addLog,           \* the AssemblyPool.add calls that have returned: fragment and result, in order
    recvPc,           \* position of the thread that runs SpreadReceiverTask.__call__
    taskInterrupted,  \* SpreadReceiverTask.__interrupted
    wakeup,           \* the message interrupt() sent to the wakeup group is in the mailbox
    received,         \* number of messages mailbox.receive() has returned, the wakeup message aside
    observed,         \* the events that reached the call of the observer action, in order:
                      \* the action called (None: no call), the number of setObserverAction
                      \* calls that had returned, the event
    observerAction,   \* SpreadReceiverTask.__observerAction
    observerLock,     \* the thread holding SpreadReceiverTask.__observerActionLock
    setLog,           \* the actions of the setObserverAction calls that have returned, in order
    logged,           \* the exceptions the receive loop has logged, in order
    connection,       \* SpreadPort.__connection: the number of the connection, or NoConnection
    connects,         \* number of spread.connect calls so far
    openConnections,  \* the connections connected and not disconnected
    groupNameSubscribers, \* SpreadPort.__groupNameSubscribers: group name -> count
    membership,       \* the groups the connection of the port has joined
    receiveThread,    \* SpreadPort.__receiveThread and __receiveTask: the number of the thread, or NoThread
    threadState,      \* every receive thread of the port: new, running, interrupted (flag set, still running), ended
    portPc,           \* position of the thread calling the methods of the port
    portCall,         \* the last call of a method of the port that has ended
    notified,         \* number of filterNotify calls so far
    sequenceNumber,   \* Informer.__sequenceNumber
    mutex,            \* the thread holding Informer.__mutex, or NoThread
    publisher,        \* the threads inside Informer.publishEvent: position and event
    published,        \* the events Router.publish was called with, in order
    pubLog,           \* the publishEvent calls that have ended: event and outcome, in order
    scopeString,      \* the string a Scope is made from
    theScope,         \* the Scope object: whether it was constructed, its __components
    scopePc,          \* string: before Scope(scopeString); scope: constructed; error: raised
    scopeCall,        \* the last call of a method of the Scope: arguments and result
    futResult,        \* Future.__result
    futError,         \* Future.__error
    waiters,          \* the threads waiting on Future.__condition that no notify has woken
    getter,           \* the threads inside Future.get: position, timeout, what ended the wait
    getLog,           \* the get calls that have ended: timeout, outcome, value, in order
    setCalls,         \* number of set and setError calls that have returned
    doneLog,          \* the isDone calls: what they returned and setCalls then, in order
    factoriesByName,  \* rsb.transport._factories_by_name: name -> factory, or NoFactory
    factoryLock,      \* the thread holding rsb.transport._factory_lock, or NoThread
    registrar,        \* the threads inside register_transport: position and factory
    registerLog,      \* the register_transport calls that have ended: factory and outcome, in order
    lookupLog,        \* the get_transport_factory calls: name and what was returned, in order
    theEvent          \* one Event object: its fields and the getId calls made on it

\* the list of registrations
registry == <<receivers, regReceiver, nextReg>>
\* the control thread and what start and stop set
control == <<started, interrupted, threadPool, ctl, ctlResult>>
\* what only the observer of the pool keeps
history == <<pushCount, raises, regFrom, popped, delivered, late,
            unregDone>>

\* the state of the dispatcher pool
poolVars == <<receivers, regReceiver, nextReg, queue, processing,
              jobsAvailable, started, interrupted, currentPosition,
              threadPool, filterFunc, lock, pc, job, msg, unreg, ctl,
              ctlResult, pushCount, raises, regFrom, popped, delivered, late,
              unregDone, passed, restarts>>
\* the state of an AssemblyPool and of the calls of its add method
assemblyVars == <<assemblies, objects, adder, addLog>>
\* the state of a SpreadReceiverTask and of the thread that runs it
observerVars == <<observerAction, observerLock, setLog>>
receiverVars == <<recvPc, taskInterrupted, wakeup, received, observed, logged,
                  observerVars>>
\* the state of a SpreadPort, its connection and its receive threads
portVars == <<connection, connects, openConnections, groupNameSubscribers,
              membership, receiveThread, threadState, portPc, portCall,
              notified>>
\* the state of an Informer and of the calls of its publishEvent method
informerVars == <<sequenceNumber, mutex, publisher, published, pubLog>>
\* a Scope and the calls of its methods
scopeVars == <<scopeString, theScope, scopePc, scopeCall>>
\* the state of the participants and of the objects they use
\* a Future and the calls of its methods
futureVars == <<futResult, futError, waiters, getter, getLog, setCalls, doneLog>>
\* the registry of transports and the calls of its functions
factoryVars == <<factoriesByName, factoryLock, registrar, registerLog, lookupLog>>
participantVars == <<informerVars, scopeVars, futureVars, factoryVars, theEvent>>
\* the state of the Spread transport
transport == <<assemblyVars, receiverVars, portVars>>
\* what no method of the dispatcher pool changes: its filter function and the
\* objects of the transport
fixed == <<filterFunc, passed, restarts, transport, participantVars>>
\* the same, without what the observers of the pool keep
others == <<filterFunc, transport, participantVars>>

vars == <<poolVars, transport, participantVars>>

-----------------------------------------------------------------------------
(* Helpers *)

Range(s) == {s[i] : i \in 1..Len(s)}

RECURSIVE Factorial(_)
Factorial(n) == IF n <= 1 THEN 1 ELSE n * Factorial(n - 1)

\* _currentPosition is only ever read modulo len(self._receivers), which is at
\* most MaxRegs: it is kept modulo a common multiple of 1..MaxRegs, which keeps
\* every such residue.
PosPeriod == Factorial(MaxRegs)

\* Condition.notify() on self._condition: wakes one waiting worker, if any;
\* the woken worker has to take the lock again before it goes on.
NotifyOne(p) ==
    IF \E w \in Workers : p[w] = "wait"
    THEN {[p EXCEPT ![w] = "next"] : w \in {x \in Workers : p[x] = "wait"}}
    ELSE {p}

\* Condition.notifyAll() on self._condition
NotifyAll(p) == [w \in Workers |-> IF p[w] = "wait" THEN "next" ELSE p[w]]

\* self._filter_func(receiver, message), when it returns
FilterResult(r, m) ==
    CASE filterFunc = "true" -> TRUE
      [] filterFunc = "false" -> FALSE
      [] OTHER -> ((r = "rA") <=> (m % 2 = 1))

\* variant of Claimable: the scan does not look at the processing flag
ClaimableIgnoringProcessing(reg) == queue[reg] # <<>>

\* the test of the scan in _next_job
Claimable(reg) == (~processing[reg]) /\ (queue[reg] # <<>>)

\* variant of ScanReg: every scan starts at the head of the list
ScanFromHead(i) == receivers[i]

\* the registration at list index real_pos in the i-th step of the scan
ScanReg(i) == receivers[((currentPosition + i) % Len(receivers)) + 1]

\* the steps of the scan (for _ in range(len(self._receivers))) that find a job
ScanHits == {i \in 1..Len(receivers) : Claimable(ScanReg(i))}

\* the scan stops (break) at the first of them
FirstHit == CHOOSE i \in ScanHits : \A j \in ScanHits : i <= j

-----------------------------------------------------------------------------
(* AssemblyPool: notifications, fragments, keys *)

\* a Notification protocol buffer without content
NoNotification ==
    [event_id |-> [sender_id |-> <<>>, sequence_number |-> 0],
     data |-> <<>>, wire_schema |-> ""]

\* a FragmentedNotification without content: the local variable fragment of
\* a thread that is not inside add
NoFragment ==
    [notification |-> NoNotification, data_part |-> 0, num_data_parts |-> 0]

\* the events sent on the bus: sender id, sequence number, wire schema, and
\* the payload cut into the chunks of its fragments
Messages ==
    { [sender_id |-> <<"a">>, sequence_number |-> 1, wire_schema |-> "utf-8-string",
       chunks |-> << <<1, 2>>, <<3>>, <<4, 5>> >>],
      [sender_id |-> <<"a">>, sequence_number |-> 27, wire_schema |-> "bytes",
       chunks |-> << <<6, 7>>, <<8>> >>],
      [sender_id |-> <<"b">>, sequence_number |-> 1, wire_schema |-> "image",
       chunks |-> << <<9>> >>] }

\* the fragments of one event as its sender puts them on the bus: part i
\* carries chunk i; the wire schema travels on part 0
FragmentsOf(m) ==
    { [notification |->
           [event_id |-> [sender_id |-> m.sender_id,
                          sequence_number |-> m.sequence_number],
            data |-> m.chunks[i + 1],
            wire_schema |-> IF i = 0 THEN m.wire_schema ELSE ""],
       data_part |-> i,
       num_data_parts |-> Len(m.chunks)] : i \in 0..(Len(m.chunks) - 1) }

Fragments == UNION {FragmentsOf(m) : m \in Messages}

\* a fragment a misbehaving sender puts on the bus: part 1 of the second
\* event again, with other bytes
Resent ==
    [notification |->
         [event_id |-> [sender_id |-> <<"a">>, sequence_number |-> 27],
          data |-> <<0>>, wire_schema |-> ""],
     data_part |-> 1, num_data_parts |-> 2]

\* the fragments that arrive
BusFragments == Fragments \cup {Resent}

\* fragments that break the invariant of the wire format, with the key of the
\* event in two parts: a part index that is not below the number of parts,
\* and a number of parts that differs from the one of the other fragments
Malformed ==
    { [notification |->
           [event_id |-> [sender_id |-> <<"a">>, sequence_number |-> 27],
            data |-> <<0>>, wire_schema |-> ""],
       data_part |-> 2, num_data_parts |-> 2],
      [notification |->
           [event_id |-> [sender_id |-> <<"a">>, sequence_number |-> 27],
            data |-> <<0>>, wire_schema |-> ""],
       data_part |-> 1, num_data_parts |-> 3] }

HexDigits == <<"0", "1", "2", "3", "4", "5", "6", "7",
               "8", "9", "a", "b", "c", "d", "e", "f">>

RECURSIVE Power(_, _)
Power(b, e) == IF e = 0 THEN 1 ELSE b * Power(b, e - 1)

\* '%08x' % n for a sequence number below 16^8: eight hexadecimal digits
Hex8(n) == [i \in 1..8 |-> HexDigits[((n \div Power(16, 8 - i)) % 16) + 1]]

\* variant of makeKey: the sequence number is left out of the key
makeKeyOfSender(notification) == notification.event_id.sender_id

\* makeKey(notification): the sender id followed by the sequence number in
\* eight hexadecimal digits
makeKey(notification) ==
    notification.event_id.sender_id \o Hex8(notification.event_id.sequence_number)

\* what add returns or raises: kind is "None", "result" or the exception
Returns(kind) == [kind |-> kind, notification |-> NoNotification,
                  data |-> <<>>, wire_schema |-> ""]

\* the tuple (notification, data, wire schema) add returns for a complete event
Result(notification, data, wireSchema) ==
    [kind |-> "result", notification |-> notification, data |-> data,
     wire_schema |-> wireSchema]

\* Assembly.__init__(fragment)
NewAssembly(fragment) ==
    [requiredParts |-> fragment.num_data_parts,
     id |-> makeKey(fragment.notification),
     parts |-> (fragment.data_part :> fragment)]

RECURSIVE Ascending(_)
\* keys = self.__parts.keys(); keys.sort()
Ascending(S) ==
    IF S = {} THEN <<>>
    ELSE LET least == CHOOSE x \in S : \A y \in S : x <= y
         IN  <<least>> \o Ascending(S \ {least})

\* variant of JoinOrder: the parts are joined from the highest index down
Descending(S) == [i \in 1..Cardinality(S) |-> Ascending(S)[Cardinality(S) + 1 - i]]

\* Assembly.__join: the order in which the parts are appended
JoinOrder(S) == Ascending(S)

RECURSIVE JoinParts(_, _)
\* Assembly.__join: finalData += bytearray(self.__parts[key].notification.data)
JoinParts(parts, keys) ==
    IF keys = <<>> THEN <<>>
    ELSE parts[Head(keys)].notification.data \o JoinParts(parts, Tail(keys))

\* Assembly.__join()
Join(assembly) == JoinParts(assembly.parts, JoinOrder(DOMAIN assembly.parts))

\* a thread that is not inside add
IdleAdder == [pc |-> "idle", fragment |-> NoFragment, obj |-> NoObject,
              result |-> Returns("None")]

AssemblyInit ==
    /\ assemblies = <<>>
    /\ objects = <<>>
    /\ adder = [t \in Adders |-> IdleAdder]
    /\ addLog = <<>>

\* add returns (or raises) what: the call is logged, the thread is outside add
AddReturns(t, what) ==
    /\ addLog' = Append(addLog, [fragment |-> adder[t].fragment, result |-> what])
    /\ adder' = [adder EXCEPT ![t] = IdleAdder]

\* the add calls begun so far
AddCalls == Len(addLog) + Cardinality({t \in Adders : adder[t].pc # "idle"})

\* AssemblyPool.add(fragment) is called: a fragment with one part is returned
\* at once
BeginAdd(t, fragment) ==
    /\ adder[t].pc = "idle"
    /\ AddCalls < MaxAdds
    /\ IF fragment.num_data_parts = 1
       THEN /\ addLog' = Append(addLog,
                    [fragment |-> fragment,
                     result |-> Result(fragment.notification,
                                       fragment.notification.data,
                                       fragment.notification.wire_schema)])
            /\ UNCHANGED adder
       ELSE /\ adder' = [adder EXCEPT ![t] = [IdleAdder EXCEPT
                                  !.pc = "test", !.fragment = fragment]]
            /\ UNCHANGED addLog
    /\ UNCHANGED <<assemblies, objects>>
    /\ UNCHANGED <<poolVars, participantVars, portVars>>

\* the key of the fragment thread t is adding
AdderKey(t) == makeKey(adder[t].fragment.notification)

\* AssemblyPool.add: the test of "if not key in self.__assemblies"
KeyKnown(t) == AdderKey(t) \in DOMAIN assemblies

\* AssemblyPool.add: if not key in self.__assemblies
TestKey(t) ==
    /\ adder[t].pc = "test"
    /\ adder' = [adder EXCEPT ![t].pc = IF KeyKnown(t) THEN "lookup" ELSE "create"]
    /\ UNCHANGED <<assemblies, objects, addLog>>
    /\ UNCHANGED <<poolVars, participantVars, portVars, receiverVars>>

\* AssemblyPool.add: self.__assemblies[key] = Assembly(fragment); return None
CreateAssembly(t) ==
    /\ adder[t].pc = "create"
    /\ IF adder[t].fragment.num_data_parts > 1
       THEN /\ objects' = Append(objects, NewAssembly(adder[t].fragment))
            /\ assemblies' = (AdderKey(t) :> (Len(objects) + 1)) @@ assemblies
            /\ AddReturns(t, Returns("None"))
       ELSE /\ AddReturns(t, Returns("AssertionError"))
            /\ UNCHANGED <<assemblies, objects>>
    /\ UNCHANGED <<poolVars, participantVars, portVars, receiverVars>>

\* AssemblyPool.add: self.__assemblies[key], the object whose add is called
LookupAssembly(t) ==
    /\ adder[t].pc = "lookup"
    /\ IF AdderKey(t) \in DOMAIN assemblies
       THEN /\ adder' = [adder EXCEPT ![t].pc = "check",
                                      ![t].obj = assemblies[AdderKey(t)]]
            /\ UNCHANGED addLog
       ELSE AddReturns(t, Returns("KeyError"))
    /\ UNCHANGED <<assemblies, objects>>
    /\ UNCHANGED <<poolVars, participantVars, portVars, receiverVars>>

\* variant of PartStored: Assembly.add does not look for the part
PartNeverStored(assembly, fragment) == FALSE

\* Assembly.add: the test of "if fragment.data_part in self.__parts"
PartStored(assembly, fragment) == fragment.data_part \in DOMAIN assembly.parts

\* Assembly.add: the key is the one of the assembly, and the part is new,
\* or else ValueError
CheckPart(t) ==
    /\ adder[t].pc = "check"
    /\ IF AdderKey(t) # objects[adder[t].obj].id
       THEN AddReturns(t, Returns("AssertionError"))
       ELSE IF PartStored(objects[adder[t].obj], adder[t].fragment)
            THEN AddReturns(t, Returns("ValueError"))
            ELSE /\ adder' = [adder EXCEPT ![t].pc = "store"]
                 /\ UNCHANGED addLog
    /\ UNCHANGED <<assemblies, objects>>
    /\ UNCHANGED <<poolVars, participantVars, portVars, receiverVars>>

\* Assembly.add: self.__parts[fragment.data_part] = fragment
StorePart(t) ==
    /\ adder[t].pc = "store"
    /\ objects' = [objects EXCEPT ![adder[t].obj].parts =
                       (adder[t].fragment.data_part :> adder[t].fragment) @@ @]
    /\ adder' = [adder EXCEPT ![t].pc = "count"]
    /\ UNCHANGED <<assemblies, addLog>>
    /\ UNCHANGED <<poolVars, participantVars, portVars, receiverVars>>

\* Assembly.add: the test of "if len(self.__parts) == self.__requiredParts"
AllParts(assembly) == Cardinality(DOMAIN assembly.parts) = assembly.requiredParts

\* Assembly.add: with all parts, return the notification of part 0, the
\* joined data and the wire schema of part 0 (KeyError without a part 0);
\* else return None
CountParts(t) ==
    /\ adder[t].pc = "count"
    /\ LET assembly == objects[adder[t].obj]
       IN  IF AllParts(assembly)
           THEN IF 0 \in DOMAIN assembly.parts
                THEN /\ adder' = [adder EXCEPT
                            ![t].pc = "delete",
                            ![t].result = Result(assembly.parts[0].notification,
                                                 Join(assembly),
                                                 assembly.parts[0].notification.wire_schema)]
                     /\ UNCHANGED addLog
                ELSE AddReturns(t, Returns("KeyError"))
           ELSE AddReturns(t, Returns("None"))
    /\ UNCHANGED <<assemblies, objects>>
    /\ UNCHANGED <<poolVars, participantVars, portVars, receiverVars>>

\* variant of WithoutKey: a complete assembly stays in the pool
KeyKept(f, key) == f

\* del self.__assemblies[key]
WithoutKey(f, key) == [k \in DOMAIN f \ {key} |-> f[k]]

\* AssemblyPool.add: if result != None: del self.__assemblies[key]; return result
DeleteAssembly(t) ==
    /\ adder[t].pc = "delete"
    /\ IF AdderKey(t) \in DOMAIN assemblies
       THEN /\ assemblies' = WithoutKey(assemblies, AdderKey(t))
            /\ AddReturns(t, adder[t].result)
       ELSE /\ AddReturns(t, Returns("KeyError"))
            /\ UNCHANGED assemblies
    /\ UNCHANGED objects
    /\ UNCHANGED <<poolVars, participantVars, portVars, receiverVars>>

\* a thread other than a receive thread calls add
DirectAdd(t, fragment) ==
    /\ BeginAdd(t, fragment)
    /\ UNCHANGED receiverVars

\* the steps of thread t inside AssemblyPool.add
AddStep(t) ==
    \/ TestKey(t)
    \/ CreateAssembly(t)
    \/ LookupAssembly(t)
    \/ CheckPart(t)
    \/ StorePart(t)
    \/ CountParts(t)
    \/ DeleteAssembly(t)


-----------------------------------------------------------------------------
(* SpreadReceiverTask: the receive loop, run by thread 1 of Adders *)

\* number of messages the receive loop receives in one behaviour
MaxReceive == 4

\* number of setObserverAction calls in one behaviour
MaxSetAction == 2

\* __init__: the observerAction the task is constructed with
InitialAction == "a0"

\* the actions setObserverAction is called with
ObserverActions == {"None", "a1"}

\* the wire schemas the converter map has a converter for
ConverterSchemas == {"utf-8-string", "bytes"}

ReceiverInit ==
    /\ recvPc = "off"
    /\ taskInterrupted = FALSE
    /\ wakeup = FALSE
    /\ received = 0
    /\ observed = <<>>
    /\ logged = <<>>
    /\ observerAction = InitialAction
    /\ observerLock = "free"
    /\ setLog = <<>>

\* the thread is started and joins the wakeup group
ReceiverStart ==
    /\ recvPc = "off"
    /\ recvPc' = "loop"
    /\ UNCHANGED <<poolVars, participantVars, portVars, assemblyVars, taskInterrupted, wakeup, received,
                   observed, logged,
                   observerVars>>

\* __call__: the check of self.__interrupted at the head of the loop; when
\* set, break and leave the wakeup group
ReceiverCheck ==
    /\ recvPc = "loop"
    /\ recvPc' = IF taskInterrupted THEN "left" ELSE "receive"
    /\ UNCHANGED <<poolVars, participantVars, portVars, assemblyVars, taskInterrupted, wakeup, received,
                   observed, logged,
                   observerVars>>

\* __call__: mailbox.receive() returns the message sent to the wakeup group: continue
ReceiveWakeup ==
    /\ recvPc = "receive"
    /\ wakeup
    /\ wakeup' = FALSE
    /\ recvPc' = "loop"
    /\ UNCHANGED <<poolVars, participantVars, portVars, assemblyVars, taskInterrupted, received, observed,
                   logged,
                   observerVars>>

\* __call__: mailbox.receive() returns a membership message (logged at level
\* info), or a regular message that ParseFromString cannot decode (the
\* DecodeError is caught and logged)
ReceiveOther(kind) ==
    /\ recvPc = "receive"
    /\ received < MaxReceive
    /\ received' = received + 1
    /\ logged' = IF kind = "undecodable" THEN Append(logged, "DecodeError") ELSE logged
    /\ recvPc' = "loop"
    /\ UNCHANGED <<poolVars, participantVars, portVars, assemblyVars, taskInterrupted, wakeup, observed,
                   observerVars>>

\* __call__: mailbox.receive() returns a regular message that decodes to a
\* fragment: self.__assemblyPool.add(fragment) is called
ReceiveFragment(fragment) ==
    /\ recvPc = "receive"
    /\ received < MaxReceive
    /\ received' = received + 1
    /\ BeginAdd(1, fragment)
    /\ recvPc' = "added"
    /\ UNCHANGED <<taskInterrupted, wakeup, observed, logged,
                   observerVars>>

\* __call__: except Exception, e: ...; raise e: the exception leaves
\* __call__ and ends the thread
LoopAfterError(exception) == "raised"

\* __call__: add has returned or raised. None: nothing to do. An event: the
\* converter for its wire schema is looked up (UnknownConverterError is
\* caught and logged) and the event is made. An exception: it is logged and
\* raised again.
ReceiverDispatch ==
    /\ recvPc = "added"
    /\ adder[1].pc = "idle"
    /\ LET assembled == addLog[Len(addLog)].result
       IN  CASE assembled.kind = "None" ->
                    /\ recvPc' = "loop"
                    /\ UNCHANGED logged
             [] assembled.kind = "result" ->
                    IF assembled.wire_schema \in ConverterSchemas
                    THEN /\ recvPc' = "event"
                         /\ UNCHANGED logged
                    ELSE /\ recvPc' = "loop"
                         /\ logged' = Append(logged, "UnknownConverterError")
             [] OTHER ->
                    /\ recvPc' = LoopAfterError(assembled.kind)
                    /\ logged' = Append(logged, assembled.kind)
    /\ UNCHANGED <<poolVars, participantVars, portVars, assemblyVars, taskInterrupted, wakeup, received,
                   observed, observerVars>>

\* the lock is held by no thread (variant of ObserverLockFree: the lock
\* keeps no thread out)
LockKeepsNoneOut == TRUE

\* RLock: a thread other than the holder acquires the lock only when no
\* thread holds it
ObserverLockFree == observerLock = "free"

\* __call__: with self.__observerActionLock: if self.__observerAction:
\* self.__observerAction(event). The lock is acquired; the action installed
\* now is called with the event, or none is and the lock is released.
ObserverEnter ==
    /\ recvPc = "event"
    /\ ObserverLockFree
    /\ observed' = Append(observed, [action |-> observerAction,
                                     sets |-> Len(setLog),
                                     event |-> addLog[Len(addLog)].result])
    /\ IF observerAction # "None"
       THEN /\ observerLock' = "loop"
            /\ recvPc' = "action"
       ELSE /\ observerLock' = "free"
            /\ recvPc' = "loop"
    /\ UNCHANGED <<poolVars, participantVars, portVars, assemblyVars, taskInterrupted, wakeup, received,
                   logged, observerAction, setLog>>

\* __call__: the observer action returns, or raises an exception, which is
\* logged and raised again; the with statement releases the lock
ObserverLeave(exception) ==
    /\ recvPc = "action"
    /\ observerLock' = "free"
    /\ IF exception = "None"
       THEN /\ recvPc' = "loop"
            /\ UNCHANGED logged
       ELSE /\ recvPc' = LoopAfterError(exception)
            /\ logged' = Append(logged, exception)
    /\ UNCHANGED <<poolVars, participantVars, portVars, assemblyVars, taskInterrupted, wakeup, received,
                   observed, observerAction, setLog>>

\* setObserverAction(action), called by another thread: with
\* self.__observerActionLock: self.__observerAction = action
SetObserverAction(action) ==
    /\ Len(setLog) < MaxSetAction
    /\ ObserverLockFree
    /\ observerAction' = action
    /\ setLog' = Append(setLog, action)
    /\ UNCHANGED <<poolVars, participantVars, portVars, assemblyVars, recvPc, taskInterrupted, wakeup,
                   received, observed, logged, observerLock>>

\* interrupt(), called by another thread: set the flag and send the wakeup message
Interrupt ==
    /\ recvPc # "off"
    /\ ~taskInterrupted
    /\ taskInterrupted' = TRUE
    /\ wakeup' = TRUE
    /\ UNCHANGED <<poolVars, participantVars, portVars, assemblyVars, recvPc, received, observed, logged,
                   observerVars>>

-----------------------------------------------------------------------------
(* SpreadPort: the connector *)

\* number of connections one port opens in one behaviour
MaxConnects == 2
\* number of filterNotify calls in one behaviour
MaxNotify == 4

\* self.__connection = None
NoConnection == 0

\* the scopes of the scope filters the port is notified of
Scopes == {"/", "/a/"}

\* __groupName(scope): the md5 sum of the scope in hexadecimal digits without
\* the last one (a table for the scopes above, which have different sums)
GroupName(scope) ==
    CASE scope = "/" -> "6666cd76f96956469e7be39d750cc7d"
      [] scope = "/a/" -> "a5b1ce3cb4ec1bf2de6b676ee5aa574"

\* the filters the port is notified of: scope filters and one other filter
PortFilters == [class : {"ScopeFilter"}, scope : Scopes]
                   \cup {[class |-> "OriginFilter", scope |-> "/"]}

\* the actions the port is notified of
FilterActions == {"ADD", "REMOVE", "UPDATE"}

\* the threads a port starts: the n-th connection gets thread n
PortThreads == 1..MaxConnects

\* no filter: the argument of a call other than filterNotify
NoFilter == [class |-> "", scope |-> ""]

\* a call of a method of the port and how it ended
Call(op, filter, action, outcome) ==
    [op |-> op, filter |-> filter, action |-> action, outcome |-> outcome]

PortInit ==
    /\ connection = NoConnection
    /\ connects = 0
    /\ openConnections = {}
    /\ groupNameSubscribers = <<>>
    /\ membership = {}
    /\ receiveThread = NoThread
    /\ threadState = [n \in PortThreads |-> "new"]
    /\ portPc = "idle"
    /\ portCall = Call("none", NoFilter, "", "ok")
    /\ notified = 0

\* variant of Inactive: activate does not test self.__connection
AlwaysInactive == TRUE

\* activate: if self.__connection == None
Inactive == connection = NoConnection

\* activate(): on an inactive port, connect and start the receive thread on a
\* new SpreadReceiverTask
Activate ==
    /\ portPc = "idle"
    /\ IF Inactive
       THEN /\ connects < MaxConnects
            /\ connects' = connects + 1
            /\ connection' = connects + 1
            /\ openConnections' = openConnections \cup {connects + 1}
            /\ membership' = {}
            /\ receiveThread' = connects + 1
            /\ threadState' = [threadState EXCEPT ![connects + 1] = "running"]
       ELSE UNCHANGED <<connects, connection, openConnections, membership,
                        receiveThread, threadState>>
    /\ portCall' = Call("activate", NoFilter, "", "ok")
    /\ UNCHANGED <<groupNameSubscribers, portPc, notified>>
    /\ UNCHANGED <<poolVars, participantVars, assemblyVars, receiverVars>>

\* deactivate() on an active port: self.__receiveTask.interrupt(), then
\* self.__receiveThread.join(timeout=1); on an inactive port: a warning
DeactivateInterrupt ==
    /\ portPc = "idle"
    /\ IF connection # NoConnection
       THEN /\ threadState' = [threadState EXCEPT ![receiveThread] =
                                   IF @ = "running" THEN "interrupted" ELSE @]
            /\ portPc' = "join"
            /\ UNCHANGED portCall
       ELSE /\ portCall' = Call("deactivate", NoFilter, "", "ok")
            /\ UNCHANGED <<threadState, portPc>>
    /\ UNCHANGED <<connects, connection, openConnections, groupNameSubscribers,
                   membership, receiveThread, notified>>
    /\ UNCHANGED <<poolVars, participantVars, assemblyVars, receiverVars>>

\* SpreadReceiverTask.__call__ of thread n: the loop finds the interruption
\* flag set and the thread ends
ThreadEnds(n) ==
    /\ threadState[n] = "interrupted"
    /\ threadState' = [threadState EXCEPT ![n] = "ended"]
    /\ UNCHANGED <<connects, connection, openConnections, groupNameSubscribers,
                   membership, receiveThread, portPc, portCall, notified>>
    /\ UNCHANGED <<poolVars, participantVars, assemblyVars, receiverVars>>

\* deactivate(): join returns, because the thread has ended or because the
\* second of the timeout is over; the thread and the task are forgotten and
\* the connection is closed
DeactivateDisconnect ==
    /\ portPc = "join"
    /\ receiveThread' = NoThread
    /\ openConnections' = openConnections \ {connection}
    /\ connection' = NoConnection
    /\ membership' = {}
    /\ portPc' = "idle"
    /\ portCall' = Call("deactivate", NoFilter, "", "ok")
    /\ UNCHANGED <<connects, groupNameSubscribers, threadState, notified>>
    /\ UNCHANGED <<poolVars, participantVars, assemblyVars, receiverVars>>

\* variant of NoSubscriberLeft: every REMOVE leaves the group
LeaveAlways(count) == TRUE

\* filterNotify: if self.__groupNameSubscribers[groupName] == 0
NoSubscriberLeft(count) == count = 0

\* del self.__groupNameSubscribers[groupName]
WithoutGroup(f, groupName) == [g \in DOMAIN f \ {groupName} |-> f[g]]

\* filterNotify, action ADD
NotifyAdd(groupName) ==
    IF groupName \notin DOMAIN groupNameSubscribers
    THEN /\ membership' = membership \cup {groupName}
         /\ groupNameSubscribers' = (groupName :> 1) @@ groupNameSubscribers
    ELSE /\ groupNameSubscribers' =
                [groupNameSubscribers EXCEPT ![groupName] = @ + 1]
         /\ UNCHANGED membership

\* filterNotify, action REMOVE
NotifyRemove(groupName) ==
    IF groupName \notin DOMAIN groupNameSubscribers
    THEN UNCHANGED <<membership, groupNameSubscribers>>
    ELSE IF NoSubscriberLeft(groupNameSubscribers[groupName] - 1)
         THEN /\ membership' = membership \ {groupName}
              /\ groupNameSubscribers' = WithoutGroup(groupNameSubscribers, groupName)
         ELSE /\ groupNameSubscribers' =
                     [groupNameSubscribers EXCEPT ![groupName] = @ - 1]
              /\ UNCHANGED membership

\* filterNotify(filter, action)
FilterNotify(filter, action) ==
    /\ portPc = "idle"
    /\ notified < MaxNotify
    /\ notified' = notified + 1
    /\ IF connection = NoConnection
       THEN /\ portCall' = Call("filterNotify", filter, action, "RuntimeError")
            /\ UNCHANGED <<membership, groupNameSubscribers>>
       ELSE /\ portCall' = Call("filterNotify", filter, action, "ok")
            /\ IF filter.class = "ScopeFilter"
               THEN CASE action = "ADD" -> NotifyAdd(GroupName(filter.scope))
                      [] action = "REMOVE" -> NotifyRemove(GroupName(filter.scope))
                      [] OTHER -> UNCHANGED <<membership, groupNameSubscribers>>
               ELSE UNCHANGED <<membership, groupNameSubscribers>>
    /\ UNCHANGED <<connects, connection, openConnections, receiveThread,
                   threadState, portPc>>
    /\ UNCHANGED <<poolVars, participantVars, assemblyVars, receiverVars>>

-----------------------------------------------------------------------------
(* Scope: strings are sequences of characters, components are strings, and
   the __components of a Scope is a sequence of components *)

\* longest string a Scope is made from
MaxLen == 4

\* Scope.__COMPONENT_SEPARATOR
Separator == "/"

\* the line feed character
Newline == "\n"

\* characters of the class [a-zA-Z0-9]: a letter and a digit
Alphanumeric == {"a", "0"}

\* the characters of the strings: the separator, the characters of the
\* class, one character outside it, and the line feed
Chars == {Separator} \cup Alphanumeric \cup {"-", Newline}

\* the strings Scope(...) is called with
ScopeStrings == UNION {[1..k -> Chars] : k \in 0..MaxLen}

\* str.split(separator): the pieces between the separators
RECURSIVE Split(_)
Split(s) ==
    IF \E i \in 1..Len(s) : s[i] = Separator
    THEN LET i == CHOOSE j \in 1..Len(s) :
                     /\ s[j] = Separator
                     /\ \A k \in 1..(j - 1) : s[k] # Separator
         IN  <<SubSeq(s, 1, i - 1)>> \o Split(SubSeq(s, i + 1, Len(s)))
    ELSE <<s>>

\* __COMPONENT_REGEX.match(com) for the pattern "^[a-zA-Z0-9]+$": one or
\* more characters of the class up to the end of the string; $ matches at
\* the end of the string and also just before a line feed that ends the string
ComponentMatches(com) ==
    LET body == IF Len(com) > 0 /\ com[Len(com)] = Newline
                THEN SubSeq(com, 1, Len(com) - 1)
                ELSE com
    IN  /\ Len(body) > 0
        /\ \A i \in 1..Len(body) : body[i] \in Alphanumeric

\* no Scope object: __init__ raised ValueError
NoScope == [constructed |-> FALSE, components |-> <<>>]

\* a Scope object with the given __components
ScopeOf(components) == [constructed |-> TRUE, components |-> components]

\* the missing trailing separator is not appended (variant of WithTrailingSeparator)
AsGiven(stringRep) == stringRep

\* __init__: append missing trailing slash
WithTrailingSeparator(stringRep) ==
    IF stringRep[Len(stringRep)] # Separator
    THEN Append(stringRep, Separator)
    ELSE stringRep

\* Scope.__init__(stringRep)
NewScope(stringRep) ==
    IF Len(stringRep) = 0
    THEN NoScope
    ELSE LET rawComponents == Split(WithTrailingSeparator(stringRep))
         IN  IF Len(rawComponents) < 1
             THEN NoScope
             ELSE IF Len(rawComponents[1]) # 0
             THEN NoScope
             ELSE IF Len(rawComponents[Len(rawComponents)]) # 0
             THEN NoScope
             ELSE LET components == SubSeq(rawComponents, 2, Len(rawComponents) - 1)
                  IN  IF \E i \in 1..Len(components) : ~ComponentMatches(components[i])
                      THEN NoScope
                      ELSE ScopeOf(components)

\* Scope.toString
RECURSIVE toString(_)
toString(components) ==
    IF components = <<>>
    THEN <<Separator>>
    ELSE toString(SubSeq(components, 1, Len(components) - 1))
             \o components[Len(components)] \o <<Separator>>

\* the slice list[:n]
Slice(list, n) == SubSeq(list, 1, IF n < Len(list) THEN n ELSE Len(list))

\* the length test that lets equal lengths pass (variant of NotLonger)
Shorter(a, b) == Len(a) < Len(b)

\* isSubScopeOf, isSuperScopeOf: len(a) <= len(b)
NotLonger(a, b) == Len(a) <= Len(b)

\* Scope.isSubScopeOf
isSubScopeOf(self, other) ==
    IF NotLonger(self, other)
    THEN FALSE
    ELSE other = Slice(self, Len(other))

\* Scope.isSuperScopeOf
isSuperScopeOf(self, other) ==
    IF NotLonger(other, self)
    THEN FALSE
    ELSE self = Slice(other, Len(self))

\* the largest index whatever includeSelf is (variant of MaxIndex)
MaxIndexWithSelf(length, includeSelf) == length

\* superScopes: maxIndex = len(self.__components); if not includeSelf: maxIndex -= 1
MaxIndex(length, includeSelf) == IF includeSelf THEN length ELSE length - 1

\* Scope.superScopes
superScopes(self, includeSelf) ==
    [i \in 1..(MaxIndex(Len(self), includeSelf) + 1) |-> Slice(self, i - 1)]

\* Scope.__eq__
ScopeEq(a, b) == a = b

\* the __components of the scopes the strings parse to
ParsedScopes == {NewScope(s).components : s \in {r \in ScopeStrings : NewScope(r).constructed}}

\* a method call of the Scope that has returned
ScopeCall(op, other, includeSelf, flag, string, list) ==
    [op |-> op, other |-> other, includeSelf |-> includeSelf, flag |-> flag,
     string |-> string, list |-> list]

\* before Scope(scopeString) is called with one of the strings
ScopeInit(strings) ==
    /\ scopeString \in strings
    /\ theScope = NoScope
    /\ scopePc = "string"
    /\ scopeCall = ScopeCall("None", <<>>, FALSE, FALSE, <<>>, <<>>)

\* Scope(scopeString): the object is constructed or ValueError is raised
ScopeNew ==
    /\ scopePc = "string"
    /\ theScope' = NewScope(scopeString)
    /\ scopePc' = IF theScope'.constructed THEN "scope" ELSE "error"
    /\ UNCHANGED <<poolVars, transport, theEvent, factoryVars, futureVars, informerVars, scopeString, scopeCall>>

\* theScope.toString()
ScopeToString ==
    /\ scopePc = "scope"
    /\ scopeCall' = ScopeCall("toString", <<>>, FALSE, FALSE,
                              toString(theScope.components), <<>>)
    /\ UNCHANGED <<poolVars, transport, theEvent, factoryVars, futureVars, informerVars, scopeString, theScope, scopePc>>

\* theScope.isSubScopeOf(other)
ScopeIsSubScopeOf(other) ==
    /\ scopePc = "scope"
    /\ scopeCall' = ScopeCall("isSubScopeOf", other, FALSE,
                              isSubScopeOf(theScope.components, other), <<>>, <<>>)
    /\ UNCHANGED <<poolVars, transport, theEvent, factoryVars, futureVars, informerVars, scopeString, theScope, scopePc>>

\* theScope.isSuperScopeOf(other)
ScopeIsSuperScopeOf(other) ==
    /\ scopePc = "scope"
    /\ scopeCall' = ScopeCall("isSuperScopeOf", other, FALSE,
                              isSuperScopeOf(theScope.components, other), <<>>, <<>>)
    /\ UNCHANGED <<poolVars, transport, theEvent, factoryVars, futureVars, informerVars, scopeString, theScope, scopePc>>

\* theScope.superScopes(includeSelf)
ScopeSuperScopes(includeSelf) ==
    /\ scopePc = "scope"
    /\ scopeCall' = ScopeCall("superScopes", <<>>, includeSelf, FALSE, <<>>,
                              superScopes(theScope.components, includeSelf))
    /\ UNCHANGED <<poolVars, transport, theEvent, factoryVars, futureVars, informerVars, scopeString, theScope, scopePc>>

-----------------------------------------------------------------------------
(* Informer.publishEvent *)

\* number of threads that call publishEvent of the informer
NumPublishers == 2

\* number of publishEvent calls in one behaviour
MaxPublish == 3

Publishers == 1..NumPublishers

\* Event.__init__: sequenceNumber = None
NoSequenceNumber == -1

\* the scope and the type the informer is constructed with
InformerScope == <<<<"a">>>>
InformerType == "str"

\* the scopes of the events: the scope of the informer, a sub-scope, an
\* unrelated scope and a super scope of it
EventScopes == {InformerScope, <<<<"a">>, <<"0">>>>, <<<<"0">>>>, <<>>}

EventTypes == {"str", "int"}

\* the sequence numbers the caller leaves in the event
CallerNumbers == {NoSequenceNumber, 0}

\* the events publishEvent is called with
Events ==
    [scope : EventScopes, type : EventTypes, sequenceNumber : CallerNumbers,
     senderId : {"None"}]

NoEvent ==
    [scope |-> <<>>, type |-> "None", sequenceNumber |-> NoSequenceNumber,
     senderId |-> "None"]

IdlePublisher == [pc |-> "idle", event |-> NoEvent]

\* Informer.__init__
InformerInit ==
    /\ sequenceNumber = 0
    /\ mutex = NoThread
    /\ publisher = [t \in Publishers |-> IdlePublisher]
    /\ published = <<>>
    /\ pubLog = <<>>

\* publishEvent calls made so far
PublishCalls == Len(pubLog) + Cardinality({t \in Publishers : publisher[t].pc # "idle"})

\* thread t calls publishEvent(event)
PublishCall(t, event) ==
    /\ publisher[t].pc = "idle"
    /\ PublishCalls < MaxPublish
    /\ publisher' = [publisher EXCEPT ![t] = [pc |-> "check", event |-> event]]
    /\ UNCHANGED <<poolVars, transport, theEvent, factoryVars, futureVars, scopeVars, sequenceNumber, mutex, published,
                   pubLog>>

\* publishEvent: if not event.scope == self.getScope(): raise ValueError
ScopeAccepted(eventScope) == ScopeEq(eventScope, InformerScope)

\* publishEvent: the tests of scope and type; ValueError leaves the call
PublishCheck(t) ==
    /\ publisher[t].pc = "check"
    /\ IF ScopeAccepted(publisher[t].event.scope)
              /\ publisher[t].event.type = InformerType
       THEN /\ publisher' = [publisher EXCEPT ![t].pc = "lock"]
            /\ UNCHANGED pubLog
       ELSE /\ publisher' = [publisher EXCEPT ![t] = IdlePublisher]
            /\ pubLog' = Append(pubLog, [thread |-> t, given |-> publisher[t].event,
                                         event |-> publisher[t].event,
                                         outcome |-> "ValueError"])
    /\ UNCHANGED <<poolVars, transport, theEvent, factoryVars, futureVars, scopeVars, sequenceNumber, mutex, published>>

\* the mutex keeps no thread out (variant of MutexFree)
MutexIgnored == TRUE

\* threading.Lock: acquired only when no thread holds it
MutexFree == mutex = NoThread

\* publishEvent: with self.__mutex: the lock is acquired
PublishLock(t) ==
    /\ publisher[t].pc = "lock"
    /\ MutexFree
    /\ mutex' = t
    /\ publisher' = [publisher EXCEPT ![t].pc = "assign"]
    /\ UNCHANGED <<poolVars, transport, theEvent, factoryVars, futureVars, scopeVars, sequenceNumber, published, pubLog>>

\* publishEvent: event.sequenceNumber = self.__sequenceNumber
PublishAssign(t) ==
    /\ publisher[t].pc = "assign"
    /\ publisher' = [publisher EXCEPT ![t].pc = "increment",
                                      ![t].event.sequenceNumber = sequenceNumber]
    /\ UNCHANGED <<poolVars, transport, theEvent, factoryVars, futureVars, scopeVars, sequenceNumber, mutex, published,
                   pubLog>>

\* publishEvent: self.__sequenceNumber += 1, and the mutex is released
PublishIncrement(t) ==
    /\ publisher[t].pc = "increment"
    /\ sequenceNumber' = sequenceNumber + 1
    /\ mutex' = NoThread
    /\ publisher' = [publisher EXCEPT ![t].pc = "route"]
    /\ UNCHANGED <<poolVars, transport, theEvent, factoryVars, futureVars, scopeVars, published, pubLog>>

\* publishEvent: event.senderId = self.id; self.__router.publish(event),
\* which returns or raises; return event
PublishRoute(t, outcome) ==
    /\ publisher[t].pc = "route"
    /\ LET event == [publisher[t].event EXCEPT !.senderId = "informer"]
       IN  /\ published' = Append(published, event)
           /\ pubLog' = Append(pubLog, [thread |-> t, given |-> publisher[t].event,
                                        event |-> event, outcome |-> outcome])
    /\ publisher' = [publisher EXCEPT ![t] = IdlePublisher]
    /\ UNCHANGED <<poolVars, transport, theEvent, factoryVars, futureVars, scopeVars, sequenceNumber, mutex>>

PublishStep(t) ==
    \/ PublishCheck(t)
    \/ PublishLock(t)
    \/ PublishAssign(t)
    \/ PublishIncrement(t)
    \/ \E outcome \in {"returned", "raised"} : PublishRoute(t, outcome)

-----------------------------------------------------------------------------
(* Future. Every block "with self.__lock" is one step: no statement inside
   one blocks but condition.wait, which releases the lock and ends the step *)

\* number of threads that call get of the future
NumGetters == 2

\* number of get calls in one behaviour
MaxGets == 3

\* number of set and setError calls in one behaviour
MaxSets == 2

\* number of isDone calls in one behaviour
MaxDone == 2

Getters == 1..NumGetters

\* the results set is called with
Results == {"None", "ok"}

\* the messages setError is called with
ErrorMessages == {"failed"}

\* the timeouts get is called with: the default 0 and one second
Timeouts == {0, 1}

IdleGetter == [pc |-> "idle", timeout |-> 0, cause |-> "None"]

\* Future.__init__
FutureInit ==
    /\ futResult = "None"
    /\ futError = FALSE
    /\ waiters = {}
    /\ getter = [t \in Getters |-> IdleGetter]
    /\ getLog = <<>>
    /\ setCalls = 0
    /\ doneLog = <<>>

\* get calls made so far
GetCalls == Len(getLog) + Cardinality({t \in Getters : getter[t].pc # "idle"})

\* thread t calls get(timeout)
GetCall(t, timeout) ==
    /\ getter[t].pc = "idle"
    /\ GetCalls < MaxGets
    /\ getter' = [getter EXCEPT ![t] = [pc |-> "test", timeout |-> timeout,
                                        cause |-> "None"]]
    /\ UNCHANGED <<poolVars, transport, theEvent, factoryVars, informerVars, scopeVars, futResult, futError,
                   waiters, getLog, setCalls, doneLog>>

\* get: with self.__lock: while self.__result is None: wait() for
\* timeout <= 0, else wait(timeout = timeout); with a result the block is left
GetTest(t) ==
    /\ getter[t].pc = "test"
    /\ IF futResult = "None"
       THEN /\ waiters' = waiters \cup {t}
            /\ getter' = [getter EXCEPT ![t].pc = IF getter[t].timeout <= 0
                                                  THEN "wait"
                                                  ELSE "timedWait"]
       ELSE /\ getter' = [getter EXCEPT ![t].pc = "leave"]
            /\ UNCHANGED waiters
    /\ UNCHANGED <<poolVars, transport, theEvent, factoryVars, informerVars, scopeVars, futResult, futError,
                   getLog, setCalls, doneLog>>

\* get: the timeout of wait(timeout = timeout) is over before a notify
GetTimeout(t) ==
    /\ getter[t].pc = "timedWait"
    /\ t \in waiters
    /\ waiters' = waiters \ {t}
    /\ getter' = [getter EXCEPT ![t].cause = "timeout"]
    /\ UNCHANGED <<poolVars, transport, theEvent, factoryVars, informerVars, scopeVars, futResult, futError,
                   getLog, setCalls, doneLog>>

\* get: wait() returns with the lock, after a notify: the loop tests again
GetWaitReturns(t) ==
    /\ getter[t].pc = "wait"
    /\ t \notin waiters
    /\ getter' = [getter EXCEPT ![t].pc = "test", ![t].cause = "None"]
    /\ UNCHANGED <<poolVars, transport, theEvent, factoryVars, informerVars, scopeVars, futResult, futError,
                   waiters, getLog, setCalls, doneLog>>

\* a get call that has ended
GetEnds(t, outcome, value) ==
    [thread |-> t, timeout |-> getter[t].timeout, cause |-> getter[t].cause,
     outcome |-> outcome, value |-> value, available |-> futResult # "None"]

\* get: wait(timeout = timeout) returns with the lock, after a notify or
\* after the timeout: raise FutureTimeout
GetTimedWaitReturns(t) ==
    /\ getter[t].pc = "timedWait"
    /\ t \notin waiters
    /\ getLog' = Append(getLog, GetEnds(t, "FutureTimeout", "None"))
    /\ getter' = [getter EXCEPT ![t] = IdleGetter]
    /\ UNCHANGED <<poolVars, transport, theEvent, factoryVars, informerVars, scopeVars, futResult, futError,
                   waiters, setCalls, doneLog>>

\* get: after the block: if self.__error: raise FutureExecutionError;
\* return self.__result
GetLeave(t) ==
    /\ getter[t].pc = "leave"
    /\ getLog' = Append(getLog,
                        IF futError
                        THEN GetEnds(t, "FutureExecutionError", futResult)
                        ELSE GetEnds(t, "returned", futResult))
    /\ getter' = [getter EXCEPT ![t] = IdleGetter]
    /\ UNCHANGED <<poolVars, transport, theEvent, factoryVars, informerVars, scopeVars, futResult, futError,
                   waiters, setCalls, doneLog>>

GetStep(t) ==
    \/ GetTest(t)
    \/ GetTimeout(t)
    \/ GetWaitReturns(t)
    \/ GetTimedWaitReturns(t)
    \/ GetLeave(t)

\* the waiting threads with cause notify
Woken(threads) ==
    [t \in Getters |-> IF t \in threads
                       THEN [getter[t] EXCEPT !.cause = "notify"]
                       ELSE getter[t]]

\* set(result): self.__result = result; self.__condition.notifyAll()
FutureSet(result) ==
    /\ setCalls < MaxSets
    /\ setCalls' = setCalls + 1
    /\ futResult' = result
    /\ waiters' = {}
    /\ getter' = Woken(waiters)
    /\ UNCHANGED <<poolVars, transport, theEvent, factoryVars, informerVars, scopeVars, futError, getLog,
                   doneLog>>

\* setError(message): self.__result = message; self.__error = True;
\* self.__condition.notify(): one waiting thread is woken, if there is one
FutureSetError(message) ==
    /\ setCalls < MaxSets
    /\ setCalls' = setCalls + 1
    /\ futResult' = message
    /\ futError' = TRUE
    /\ IF waiters = {}
       THEN UNCHANGED <<waiters, getter>>
       ELSE \E t \in waiters :
               /\ waiters' = waiters \ {t}
               /\ getter' = Woken({t})
    /\ UNCHANGED <<poolVars, transport, theEvent, factoryVars, informerVars, scopeVars, getLog, doneLog>>

\* isDone(): return not self.__result is None
FutureIsDone ==
    /\ Len(doneLog) < MaxDone
    /\ doneLog' = Append(doneLog, [returned |-> futResult # "None",
                                   setCalls |-> setCalls])
    /\ UNCHANGED <<poolVars, transport, theEvent, factoryVars, informerVars, scopeVars, futResult, futError,
                   waiters, getter, getLog, setCalls>>

-----------------------------------------------------------------------------
(* rsb.transport: the registry of transport factories *)

\* number of threads that call register_transport
NumRegistrars == 2

\* number of register_transport calls in one behaviour
MaxRegister == 3

\* number of get_transport_factory calls in one behaviour
MaxLookup == 2
MaxStarts == 2
MaxEventCalls == 4

Registrars == 1..NumRegistrars

\* no factory: None as argument, no entry in the dictionary
NoFactory == 0

\* the names of the transports
TransportNames == {"spread", "socket"}

\* the factory objects: two with the same name, one with another
Factories == {1, 2, 3}

\* TransportFactory.name
FactoryName(factory) == IF factory = 3 THEN "socket" ELSE "spread"

IdleRegistrar == [pc |-> "idle", factory |-> NoFactory]

\* _factories_by_name = {}; _factory_lock = threading.Lock()
FactoryInit ==
    /\ factoriesByName = [name \in TransportNames |-> NoFactory]
    /\ factoryLock = NoThread
    /\ registrar = [t \in Registrars |-> IdleRegistrar]
    /\ registerLog = <<>>
    /\ lookupLog = <<>>

\* register_transport calls made so far
RegisterCalls ==
    Len(registerLog) + Cardinality({t \in Registrars : registrar[t].pc # "idle"})

\* a register_transport call that has ended
RegisterEnds(t, factory, outcome) ==
    [thread |-> t, factory |-> factory, outcome |-> outcome]

\* register_transport(factory): if factory is None: raise ValueError
RegisterCall(t, factory) ==
    /\ registrar[t].pc = "idle"
    /\ RegisterCalls < MaxRegister
    /\ IF factory = NoFactory
       THEN /\ registerLog' = Append(registerLog, RegisterEnds(t, factory, "ValueError"))
            /\ UNCHANGED registrar
       ELSE /\ registrar' = [registrar EXCEPT ![t] = [pc |-> "lock", factory |-> factory]]
            /\ UNCHANGED registerLog
    /\ UNCHANGED <<poolVars, transport, theEvent, informerVars, scopeVars, futureVars,
                   factoriesByName, factoryLock, lookupLog>>

\* the lock keeps no thread out (variant of FactoryLockFree)
FactoryLockIgnored == TRUE

\* threading.Lock: acquired only when no thread holds it
FactoryLockFree == factoryLock = NoThread

\* register_transport: with _factory_lock: the lock is acquired
RegisterLock(t) ==
    /\ registrar[t].pc = "lock"
    /\ FactoryLockFree
    /\ factoryLock' = t
    /\ registrar' = [registrar EXCEPT ![t].pc = "test"]
    /\ UNCHANGED <<poolVars, transport, theEvent, informerVars, scopeVars, futureVars,
                   factoriesByName, registerLog, lookupLog>>

\* register_transport: if factory.name in _factories_by_name: raise
\* ValueError; the with statement releases the lock
RegisterTest(t) ==
    /\ registrar[t].pc = "test"
    /\ IF factoriesByName[FactoryName(registrar[t].factory)] # NoFactory
       THEN /\ registerLog' = Append(registerLog,
                                     RegisterEnds(t, registrar[t].factory, "ValueError"))
            /\ registrar' = [registrar EXCEPT ![t] = IdleRegistrar]
            /\ factoryLock' = NoThread
       ELSE /\ registrar' = [registrar EXCEPT ![t].pc = "store"]
            /\ UNCHANGED <<registerLog, factoryLock>>
    /\ UNCHANGED <<poolVars, transport, theEvent, informerVars, scopeVars, futureVars,
                   factoriesByName, lookupLog>>

\* register_transport: _factories_by_name[factory.name] = factory; the
\* with statement releases the lock
RegisterStore(t) ==
    /\ registrar[t].pc = "store"
    /\ factoriesByName' = [factoriesByName EXCEPT
                              ![FactoryName(registrar[t].factory)] = registrar[t].factory]
    /\ registerLog' = Append(registerLog, RegisterEnds(t, registrar[t].factory, "None"))
    /\ registrar' = [registrar EXCEPT ![t] = IdleRegistrar]
    /\ factoryLock' = NoThread
    /\ UNCHANGED <<poolVars, transport, theEvent, informerVars, scopeVars, futureVars, lookupLog>>

\* get_transport_factory(name): with _factory_lock: return
\* _factories_by_name[name]; KeyError without entry
GetTransportFactory(name) ==
    /\ Len(lookupLog) < MaxLookup
    /\ FactoryLockFree
    /\ lookupLog' = Append(lookupLog,
                           [name |-> name, returned |-> factoriesByName[name],
                            outcome |-> IF factoriesByName[name] = NoFactory
                                        THEN "KeyError" ELSE "None",
                            registered |-> Len(registerLog)])
    /\ UNCHANGED <<poolVars, transport, theEvent, informerVars, scopeVars, futureVars,
                   factoriesByName, factoryLock, registrar, registerLog>>

-----------------------------------------------------------------------------
\* the objects as constructed, the Scope aside
-----------------------------------------------------------------------------
(* Event: the identity fields and the lazily computed id *)

\* self.__id = None
NoId == <<>>

\* the participant ids an event is given as sender id by its user
SenderIds == {"p1", "p2"}

\* the sequence numbers an event is given by its user
EventNumbers == {0, 1, 17}

\* uuid.uuid5(senderId, '%08x' % sequenceNumber): the name-based id is a
\* function of the namespace and the name, taken as free of collisions
uuid5(namespace, number) == <<namespace, Hex8(number)>>

\* Event(sequenceNumber = 0, senderId = "p1"): both identity fields are set
EventInit ==
    theEvent = [id |-> NoId, sequenceNumber |-> 0, senderId |-> "p1",
                calls |-> 0, log |-> <<>>]

\* Event.setSenderId
EventSetSenderId(senderId) ==
    /\ theEvent.calls < MaxEventCalls
    /\ theEvent' = [theEvent EXCEPT !.senderId = senderId, !.calls = @ + 1]
    /\ UNCHANGED <<poolVars, transport, informerVars, scopeVars, futureVars, factoryVars>>

\* Event.setSequenceNumber
EventSetSequenceNumber(number) ==
    /\ theEvent.calls < MaxEventCalls
    /\ theEvent' = [theEvent EXCEPT !.sequenceNumber = number, !.calls = @ + 1]
    /\ UNCHANGED <<poolVars, transport, informerVars, scopeVars, futureVars, factoryVars>>

\* variant of CachedId: getId computes the id at every call
NeverCached == NoId

\* Event.getId: the value of self.__id the test "is None" looks at
CachedId == theEvent.id

\* Event.getId: compute the id if self.__id is None, and return self.__id
EventGetId ==
    /\ theEvent.calls < MaxEventCalls
    /\ LET id == IF CachedId = NoId
                 THEN uuid5(theEvent.senderId, theEvent.sequenceNumber)
                 ELSE CachedId
       IN  theEvent' = [theEvent EXCEPT
                !.id = id, !.calls = @ + 1,
                !.log = Append(@, [senderId |-> theEvent.senderId,
                                   sequenceNumber |-> theEvent.sequenceNumber,
                                   returned |-> id])]
    /\ UNCHANGED <<poolVars, transport, informerVars, scopeVars, futureVars, factoryVars>>

\* Informer.publishEvent(event) for this Event object, by one thread: scope
\* and type match; the event gets the next sequence number and the id of the
\* informer as sender id, and goes to the router
EventPublish ==
    /\ PublishCalls < MaxPublish
    /\ mutex = NoThread
    /\ theEvent' = [theEvent EXCEPT !.sequenceNumber = sequenceNumber,
                                    !.senderId = "informer"]
    /\ sequenceNumber' = sequenceNumber + 1
    /\ LET given == [scope |-> InformerScope, type |-> InformerType,
                     sequenceNumber |-> theEvent.sequenceNumber,
                     senderId |-> theEvent.senderId]
           event == [given EXCEPT !.sequenceNumber = sequenceNumber,
                                  !.senderId = "informer"]
       IN  /\ published' = Append(published, event)
           /\ pubLog' = Append(pubLog, [thread |-> 1, given |-> given,
                                        event |-> event, outcome |-> "returned"])
    /\ UNCHANGED <<poolVars, transport, scopeVars, futureVars, factoryVars,
                   mutex, publisher>>

Constructed ==
    /\ receivers = <<>>
    /\ regReceiver = [reg \in RegIds |-> "none"]
    /\ nextReg = 0
    /\ queue = [reg \in RegIds |-> <<>>]
    /\ processing = [reg \in RegIds |-> FALSE]
    /\ jobsAvailable = FALSE
    /\ started = FALSE
    /\ interrupted = FALSE
    /\ currentPosition = 0
    /\ threadPool = {}
    /\ filterFunc \in Filters
    /\ lock = NoThread
    /\ pc = [w \in Workers |-> "off"]
    /\ job = [w \in Workers |-> NoReg]
    /\ msg = [w \in Workers |-> NoMsg]
    /\ unreg = IdleUnregister
    /\ ctl = "idle"
    /\ ctlResult = "ok"
    /\ pushCount = 0
    /\ raises = 0
    /\ regFrom = [reg \in RegIds |-> 0]
    /\ popped = [reg \in RegIds |-> <<>>]
    /\ delivered = [reg \in RegIds |-> <<>>]
    /\ late = [w \in Workers |-> FALSE]
    /\ unregDone = {}
    /\ passed = [reg \in RegIds |-> {}]
    /\ restarts = [count |-> 0, queued |-> {}]
    /\ AssemblyInit
    /\ ReceiverInit
    /\ PortInit
    /\ InformerInit
    /\ FutureInit
    /\ FactoryInit
    /\ EventInit

Init == Constructed /\ ScopeInit({<<Separator>>})

-----------------------------------------------------------------------------
(* Client operations *)

\* register_receiver(receiver)
RegisterReceiver(r) ==
    /\ lock = NoThread
    /\ nextReg < MaxRegs
    /\ nextReg' = nextReg + 1
    /\ receivers' = Append(receivers, nextReg + 1)
    /\ regReceiver' = [regReceiver EXCEPT ![nextReg + 1] = r]
    /\ regFrom' = [regFrom EXCEPT ![nextReg + 1] = pushCount]
    /\ UNCHANGED <<queue, processing, jobsAvailable, currentPosition,
                   fixed, lock, pc, job, msg, unreg, control, pushCount,
                   raises, popped, delivered, late, unregDone>>

\* the registrations unregister_receiver(r) takes out of the list
Matching(r) == {reg \in Range(receivers) : regReceiver[reg] = r}

\* the local variable removed after the loop: the last match in the list
LastRemoved(r) ==
    IF Matching(r) = {} THEN NoReg
    ELSE receivers[CHOOSE i \in 1..Len(receivers) :
                     /\ receivers[i] \in Matching(r)
                     /\ \A j \in 1..Len(receivers) :
                          receivers[j] \in Matching(r) => j <= i]

\* the list kept
Kept(r) == SelectSeq(receivers, LAMBDA reg : regReceiver[reg] # r)

\* unregister_receiver(receiver): the critical section that rebuilds the list
UnregisterCall(caller, r) ==
    /\ unreg.pc = "idle"
    /\ lock = NoThread
    /\ receivers' = Kept(r)
    /\ IF LastRemoved(r) = NoReg
       THEN unreg' = IdleUnregister
       ELSE unreg' = [pc |-> "check", removed |-> LastRemoved(r),
                      gone |-> Matching(r), caller |-> caller]
    /\ UNCHANGED <<regReceiver, nextReg, queue, processing, jobsAvailable,
                   currentPosition, fixed, lock, pc, job, msg, control,
                   history>>

\* unregister_receiver(r), called by a thread that is not a worker
UnregisterRemove(r) == UnregisterCall(NoThread, r)

\* worker w is inside a call of unregister_receiver
Calling(w) == unreg.pc # "idle" /\ unreg.caller = w

\* the delivery function that worker w is running calls unregister_receiver(r)
CallbackUnregisters(w, r) ==
    /\ pc[w] = "deliver"
    /\ UnregisterCall(w, r)

\* variant of StillProcessing: unregister_receiver does not wait
NeverProcessing(reg) == FALSE

\* unregister_receiver: the loop test removed.processing
StillProcessing(reg) == processing[reg]

\* unregister_receiver: with removed.processing_condition:
\*     while removed.processing: removed.processing_condition.wait()
UnregisterCheck ==
    /\ unreg.pc = "check"
    /\ IF StillProcessing(unreg.removed)
       THEN /\ unreg' = [unreg EXCEPT !.pc = "blocked"]
            /\ UNCHANGED unregDone
       ELSE /\ unreg' = IdleUnregister
            /\ unregDone' = unregDone \cup unreg.gone
    /\ UNCHANGED <<registry, queue, processing, jobsAvailable,
                   currentPosition, fixed, lock, pc, job, msg, control,
                   pushCount, raises, regFrom, popped, delivered, late>>

\* variant of QueuesAfterPush: the message goes to every registration ever made
QueuesAfterPushToAll(m) ==
    [reg \in RegIds |->
        IF reg <= nextReg THEN Append(queue[reg], m) ELSE queue[reg]]

\* the queues after push(message) has put the message
QueuesAfterPush(m) ==
    [reg \in RegIds |->
        IF reg \in Range(receivers) THEN Append(queue[reg], m) ELSE queue[reg]]

\* push(message)
Push ==
    /\ lock = NoThread
    /\ pushCount < MaxPush
    /\ pushCount' = pushCount + 1
    /\ queue' = QueuesAfterPush(pushCount + 1)
    /\ jobsAvailable' = TRUE
    /\ pc' \in NotifyOne(pc)
    /\ UNCHANGED <<registry, processing, currentPosition, fixed, lock,
                   job, msg, unreg, control, raises, regFrom, popped,
                   delivered, late, unregDone>>

-----------------------------------------------------------------------------
(* Worker threads: _worker, _next_job, _finished_work *)

\* _next_job: with self._condition (entered first, or again after wait())
NextJobEnter(w) ==
    /\ pc[w] = "next"
    /\ lock = NoThread
    /\ lock' = w
    /\ pc' = [pc EXCEPT ![w] = "locked"]
    /\ UNCHANGED <<registry, queue, processing, jobsAvailable,
                   currentPosition, fixed, job, msg, unreg, control,
                   history>>

\* _next_job: no job and not interrupted: self._condition.wait()
NextJobWait(w) ==
    /\ pc[w] = "locked"
    /\ ~jobsAvailable /\ ~interrupted
    /\ pc' = [pc EXCEPT ![w] = "wait"]
    /\ lock' = NoThread
    /\ UNCHANGED <<registry, queue, processing, jobsAvailable,
                   currentPosition, fixed, job, msg, unreg, control,
                   history>>

\* _next_job: raise _InterruptedError, which ends _worker and the thread
NextJobInterrupted(w) ==
    /\ pc[w] = "locked"
    /\ interrupted
    /\ pc' = [pc EXCEPT ![w] = "done"]
    /\ lock' = NoThread
    /\ UNCHANGED <<registry, queue, processing, jobsAvailable,
                   currentPosition, fixed, job, msg, unreg, control,
                   history>>

\* variant of LockAfterNextJob: the callbacks run inside the with block
LockKeptAfterNextJob(w) == w

\* the holder of the lock of self._condition once _next_job has returned
LockAfterNextJob(w) == NoThread

\* variant of ProcessingAfterClaim: the flag is not set
ProcessingNotMarked(reg) == processing

\* _next_job: receiver.processing = True
ProcessingAfterClaim(reg) == [processing EXCEPT ![reg] = TRUE]

\* _next_job: the scan finds a job: claim it, notify, return it
ClaimJob(w) ==
    /\ pc[w] = "locked"
    /\ jobsAvailable /\ ~interrupted
    /\ ScanHits # {}
    /\ currentPosition' = (currentPosition + FirstHit) % PosPeriod
    /\ processing' = ProcessingAfterClaim(ScanReg(FirstHit))
    /\ job' = [job EXCEPT ![w] = ScanReg(FirstHit)]
    /\ pc' \in NotifyOne([pc EXCEPT ![w] = "get"])
    /\ lock' = LockAfterNextJob(w)
    /\ UNCHANGED <<registry, queue, jobsAvailable, msg, unreg, control, history>>

NextJobClaim(w) == ClaimJob(w) /\ UNCHANGED fixed

\* the same step, seen by an observer that keeps, for every registration,
\* the registrations claimable and not claimed since its last claim
ObservedClaim(w) ==
    /\ ClaimJob(w)
    /\ passed' = [reg \in RegIds |->
                     IF reg = job'[w]
                     THEN {other \in Range(receivers) \ {reg} : Claimable(other)}
                     ELSE passed[reg] \ {job'[w]}]
    /\ UNCHANGED <<others, restarts>>

\* _next_job: the scan finds nothing: self._jobsAvailable = False, and the
\* loop goes on to self._condition.wait() with the lock still held
NextJobNothing(w) ==
    /\ pc[w] = "locked"
    /\ jobsAvailable /\ ~interrupted
    /\ ScanHits = {}
    /\ currentPosition' = (currentPosition + Len(receivers)) % PosPeriod
    /\ jobsAvailable' = FALSE
    /\ pc' = [pc EXCEPT ![w] = "wait"]
    /\ lock' = NoThread
    /\ UNCHANGED <<registry, queue, processing, fixed, job, msg, unreg,
                   control, history>>

\* Queue.get(): the element a FIFO queue hands out
QueueFront(q) == Head(q)

\* what Queue.get() leaves in the queue
QueueRest(q) == Tail(q)

\* _worker: message = receiver.queue.get(True, None), blocking while the queue is empty
QueueGet(w) ==
    /\ pc[w] = "get"
    /\ queue[job[w]] # <<>>
    /\ msg' = [msg EXCEPT ![w] = QueueFront(queue[job[w]])]
    /\ queue' = [queue EXCEPT ![job[w]] = QueueRest(@)]
    /\ popped' = [popped EXCEPT ![job[w]] = Append(@, QueueFront(queue[job[w]]))]
    /\ late' = [late EXCEPT ![w] = job[w] \notin Range(receivers)]
    /\ pc' = [pc EXCEPT ![w] = "filter"]
    /\ UNCHANGED <<registry, processing, jobsAvailable, currentPosition,
                   fixed, lock, job, unreg, control, pushCount, raises,
                   regFrom, delivered, unregDone>>

\* variant of FilterTest: the delivery function is called whatever the filter says
FilterIgnored(w) == TRUE

\* _worker: if self._filter_func(receiver.receiver, message)
FilterTest(w) == FilterResult(regReceiver[job[w]], msg[w])

\* _worker: self._filter_func(receiver.receiver, message) returns; if true,
\* self._del_func(receiver.receiver, message) is called
FilterReturns(w) ==
    /\ pc[w] = "filter"
    /\ IF FilterTest(w)
       THEN /\ delivered' = [delivered EXCEPT ![job[w]] = Append(@, msg[w])]
            /\ pc' = [pc EXCEPT ![w] = "deliver"]
       ELSE /\ UNCHANGED delivered
            /\ pc' = [pc EXCEPT ![w] = "fin"]
    /\ UNCHANGED <<registry, queue, processing, jobsAvailable,
                   currentPosition, fixed, lock, job, msg, unreg,
                   control, pushCount, raises, regFrom, popped, late,
                   unregDone>>

\* _worker: self._del_func returns
DeliverReturns(w) ==
    /\ pc[w] = "deliver"
    /\ pc' = [pc EXCEPT ![w] = "fin"]
    /\ UNCHANGED <<registry, queue, processing, jobsAvailable,
                   currentPosition, fixed, lock, job, msg, unreg,
                   control, history>>

\* _worker: self._filter_func or self._del_func raises: the exception is no
\* _InterruptedError, so it leaves _worker and ends the thread
CallbackRaises(w) ==
    /\ pc[w] \in {"filter", "deliver"}
    /\ raises < MaxRaise
    /\ raises' = raises + 1
    /\ pc' = [pc EXCEPT ![w] = "done"]
    /\ job' = [job EXCEPT ![w] = NoReg]
    /\ msg' = [msg EXCEPT ![w] = NoMsg]
    /\ late' = [late EXCEPT ![w] = FALSE]
    /\ UNCHANGED <<registry, queue, processing, jobsAvailable,
                   currentPosition, fixed, lock, unreg, control,
                   pushCount, regFrom, popped, delivered, unregDone>>

\* _finished_work: with self._condition
FinishedWorkEnter(w) ==
    /\ pc[w] = "fin"
    /\ lock = NoThread
    /\ lock' = w
    /\ pc' = [pc EXCEPT ![w] = "fin_locked"]
    /\ UNCHANGED <<registry, queue, processing, jobsAvailable,
                   currentPosition, fixed, job, msg, unreg, control,
                   history>>

\* receiver.processing_condition.notifyAll(): a caller of unregister_receiver
\* waiting on this registration tests the flag again
ProcessingNotifyAll(reg) ==
    IF unreg.pc = "blocked" /\ unreg.removed = reg
    THEN [unreg EXCEPT !.pc = "check"]
    ELSE unreg

\* variant of MoreJobs: _finished_work does not look at the queue again
NoMoreJobs(reg) == FALSE

\* _finished_work: if not receiver.queue.empty()
MoreJobs(reg) == queue[reg] # <<>>

\* _finished_work: clear the flag, wake the waiters, and signal more work
FinishedWork(w) ==
    /\ pc[w] = "fin_locked"
    /\ processing' = [processing EXCEPT ![job[w]] = FALSE]
    /\ unreg' = ProcessingNotifyAll(job[w])
    /\ IF MoreJobs(job[w])
       THEN /\ jobsAvailable' = TRUE
            /\ pc' \in NotifyOne([pc EXCEPT ![w] = "next"])
       ELSE /\ UNCHANGED jobsAvailable
            /\ pc' = [pc EXCEPT ![w] = "next"]
    /\ job' = [job EXCEPT ![w] = NoReg]
    /\ msg' = [msg EXCEPT ![w] = NoMsg]
    /\ late' = [late EXCEPT ![w] = FALSE]
    /\ lock' = NoThread
    /\ UNCHANGED <<registry, queue, currentPosition, fixed, control,
                   pushCount, raises, regFrom, popped, delivered, unregDone>>

-----------------------------------------------------------------------------
(* Control thread: start and stop *)

\* start() on a pool that is running: raise RuntimeError("Pool already running")
StartRaises ==
    /\ ctlResult' = "RuntimeError"
    /\ UNCHANGED <<registry, queue, processing, jobsAvailable,
                   currentPosition, lock, pc, job, msg, unreg,
                   started, interrupted, threadPool, ctl, history>>

\* the flag is left as stop() set it (variant of InterruptedAfterStart)
InterruptedKept == interrupted

\* start(): self._interrupted = False
InterruptedAfterStart == FALSE

\* start() on a pool that is not running: create and start the worker threads
StartWorkers ==
    /\ interrupted' = InterruptedAfterStart
    /\ pc' = [w \in Workers |-> "next"]
    /\ job' = [w \in Workers |-> NoReg]
    /\ msg' = [w \in Workers |-> NoMsg]
    /\ late' = [w \in Workers |-> FALSE]
    /\ threadPool' = threadPool \cup Workers
    /\ started' = TRUE
    /\ ctlResult' = "ok"
    /\ UNCHANGED <<registry, queue, processing, jobsAvailable,
                   currentPosition, lock, unreg, ctl, pushCount,
                   raises, regFrom, popped, delivered, unregDone>>

\* variant of AlreadyRunning: start() does not test self._started
NeverRunning == FALSE

\* start(): if self._started
AlreadyRunning == started

\* start()
StartCall ==
    /\ ctl = "idle"
    /\ lock = NoThread
    /\ IF AlreadyRunning THEN StartRaises ELSE StartWorkers

Start == StartCall /\ UNCHANGED fixed

\* the messages in the queues of the registrations of the list
Queued ==
    UNION {{<<reg, queue[reg][i]>> : i \in 1..Len(queue[reg])} : reg \in Range(receivers)}

\* the same call, seen by an observer that counts the calls that started
\* workers and keeps what was queued at the last one that followed a stop()
ObservedStart ==
    /\ StartCall
    /\ restarts' = IF AlreadyRunning
                   THEN restarts
                   ELSE [count |-> restarts.count + 1,
                         queued |-> IF restarts.count > 0 THEN Queued ELSE {}]
    /\ UNCHANGED <<others, passed>>

\* stop(): set the flag and wake every waiting worker
StopSignal ==
    /\ ctl = "idle"
    /\ lock = NoThread
    /\ interrupted' = TRUE
    /\ pc' = NotifyAll(pc)
    /\ ctl' = "join"
    /\ ctlResult' = "ok"
    /\ UNCHANGED <<registry, queue, processing, jobsAvailable,
                   currentPosition, fixed, lock, job, msg, unreg,
                   started, threadPool, history>>

\* variant of Joined: stop() does not join the workers
JoinSkipped == TRUE

\* stop(): worker.join() has returned for every thread of self._threadPool
Joined == \A w \in threadPool : pc[w] = "done"

\* stop(): after the joins
StopJoined ==
    /\ ctl = "join"
    /\ Joined
    /\ threadPool' = {}
    /\ started' = FALSE
    /\ ctl' = "idle"
    /\ UNCHANGED <<registry, queue, processing, jobsAvailable,
                   currentPosition, fixed, lock, pc, job, msg, unreg,
                   interrupted, ctlResult, history>>

-----------------------------------------------------------------------------
\* the steps of a worker whose pool is not being stopped
RunningWorkerStep(w) ==
    \/ NextJobEnter(w)
    \/ NextJobWait(w)
    \/ NextJobClaim(w)
    \/ NextJobNothing(w)
    \/ QueueGet(w)
    \/ FilterReturns(w)
    \/ DeliverReturns(w)
    \/ FinishedWorkEnter(w)
    \/ FinishedWork(w)

WorkerStep(w) ==
    \/ RunningWorkerStep(w)
    \/ NextJobInterrupted(w)

ClientStep ==
    \/ \E r \in Receivers : RegisterReceiver(r)
    \/ \E r \in Receivers : UnregisterRemove(r)
    \/ UnregisterCheck
    \/ Push

ControlStep ==
    \/ Start
    \/ StopSignal
    \/ StopJoined

Next ==
    \/ \E w \in Workers : WorkerStep(w)
    \/ \E w \in Workers : CallbackRaises(w)
    \/ ClientStep
    \/ ControlStep

Spec == Init /\ [][Next]_vars

\* the transport beside a dispatcher pool that is left as constructed, with
\* the default filter
TransportInit == Init /\ filterFunc = "true"

\* one thread calls add of an AssemblyPool with fragments in any order,
\* any of them any number of times
AssemblyNext ==
    \/ \E fragment \in BusFragments : DirectAdd(1, fragment)
    \/ AddStep(1)

AssemblySpec == TransportInit /\ [][AssemblyNext]_vars

\* One thread adds fragments in any order, malformed ones included.
MalformedNext ==
    \/ \E fragment \in Fragments \cup Malformed : DirectAdd(1, fragment)
    \/ AddStep(1)

MalformedSpec == TransportInit /\ [][MalformedNext]_vars

\* the fragments add has been called with so far
Fed == {addLog[c].fragment : c \in 1..Len(addLog)}
           \cup {adder[t].fragment : t \in {u \in Adders : adder[u].pc # "idle"}}

\* several threads call add of one AssemblyPool, every fragment of every
\* event is added once, by any of the threads
ConcurrentAddNext ==
    \/ \E t \in Adders : \E fragment \in Fragments \ Fed : DirectAdd(t, fragment)
    \/ \E t \in Adders : AddStep(t)

ConcurrentAddSpec == TransportInit /\ [][ConcurrentAddNext]_vars

\* a SpreadReceiverTask and its thread: fragments, membership messages and
\* undecodable messages arrive in any order; interrupt() is called at any time
ReceiverNext ==
    \/ ReceiverStart
    \/ ReceiverCheck
    \/ ReceiveWakeup
    \/ \E kind \in {"membership", "undecodable"} : ReceiveOther(kind)
    \/ \E fragment \in BusFragments : ReceiveFragment(fragment)
    \/ AddStep(1)
    \/ ReceiverDispatch
    \/ ObserverEnter
    \/ \E exception \in {"None", "Exception"} : ObserverLeave(exception)
    \/ Interrupt

ReceiverSpec == TransportInit /\ [][ReceiverNext]_vars

\* the same, with another thread calling setObserverAction at any time
ObserverNext ==
    \/ ReceiverNext
    \/ \E action \in ObserverActions : SetObserverAction(action)

ObserverSpec == TransportInit /\ [][ObserverNext]_vars

\* several threads call publishEvent of one Informer with any events
InformerNext ==
    \/ \E t \in Publishers : \E event \in Events : PublishCall(t, event)
    \/ \E t \in Publishers : PublishStep(t)

InformerSpec == TransportInit /\ [][InformerNext]_vars

\* several threads call get of one Future with and without timeout, while
\* set, setError and isDone are called at any time
FutureNext ==
    \/ \E t \in Getters : \E timeout \in Timeouts : GetCall(t, timeout)
    \/ \E t \in Getters : GetStep(t)
    \/ \E result \in Results : FutureSet(result)
    \/ \E message \in ErrorMessages : FutureSetError(message)
    \/ FutureIsDone

FutureSpec == TransportInit /\ [][FutureNext]_vars

\* One thread sets the identity fields of an Event, asks for its id and
\* publishes it, in any order.
EventNext ==
    \/ \E senderId \in SenderIds : EventSetSenderId(senderId)
    \/ \E number \in EventNumbers : EventSetSequenceNumber(number)
    \/ EventGetId
    \/ EventPublish

EventSpec == TransportInit /\ [][EventNext]_vars

\* several threads call register_transport with any factories, None
\* included, and get_transport_factory is called at any time
FactoryNext ==
    \/ \E t \in Registrars : \E factory \in Factories \cup {NoFactory} :
          RegisterCall(t, factory)
    \/ \E t \in Registrars : RegisterLock(t)
    \/ \E t \in Registrars : RegisterTest(t)
    \/ \E t \in Registrars : RegisterStore(t)
    \/ \E name \in TransportNames : GetTransportFactory(name)

FactorySpec == TransportInit /\ [][FactoryNext]_vars

\* a Scope is made from any of the strings and its methods are called with
\* any of the scopes that the strings parse to
ScopeNext ==
    \/ ScopeNew
    \/ ScopeToString
    \/ \E other \in ParsedScopes : ScopeIsSubScopeOf(other)
    \/ \E other \in ParsedScopes : ScopeIsSuperScopeOf(other)
    \/ \E includeSelf \in BOOLEAN : ScopeSuperScopes(includeSelf)

\* the objects as constructed, before Scope(...) is called with any of the strings
ScopeInputs == Constructed /\ filterFunc = "true" /\ ScopeInit(ScopeStrings)

ScopeSpec == ScopeInputs /\ [][ScopeNext]_vars

\* one thread calls activate, deactivate and filterNotify of a SpreadPort in
\* any order; the receive threads run beside it
PortNext ==
    \/ Activate
    \/ DeactivateInterrupt
    \/ DeactivateDisconnect
    \/ \E n \in PortThreads : ThreadEnds(n)
    \/ \E filter \in PortFilters : \E action \in FilterActions :
          FilterNotify(filter, action)

PortSpec == TransportInit /\ [][PortNext]_vars

\* The pool while it is started and not stopped, with filter and delivery
\* functions that return: no stop call, no exception from a callback.
RunningNext ==
    \/ \E w \in Workers : RunningWorkerStep(w)
    \/ ClientStep
    \/ Start

\* The pool with a fixed set of registrations: the receivers are registered
\* before start() and none is unregistered; no stop call, no exception
\* from a callback.
RoundRobinNext ==
    \/ \E w \in Workers :
          \/ NextJobEnter(w)
          \/ NextJobWait(w)
          \/ ObservedClaim(w)
          \/ NextJobNothing(w)
          \/ QueueGet(w)
          \/ FilterReturns(w)
          \/ DeliverReturns(w)
          \/ FinishedWorkEnter(w)
          \/ FinishedWork(w)
    \/ \E r \in Receivers : ~started /\ RegisterReceiver(r)
    \/ Push
    \/ Start

RoundRobinSpec == Init /\ [][RoundRobinNext]_vars

\* A pool that is stopped and started again, with registrations that stay in
\* the list; the calls of start() are observed.
RestartNext ==
    \/ \E w \in Workers : WorkerStep(w)
    \/ \E w \in Workers : CallbackRaises(w)
    \/ \E r \in Receivers : RegisterReceiver(r)
    \/ Push
    \/ restarts.count < MaxStarts /\ ObservedStart
    \/ StopSignal
    \/ StopJoined

\* Fair scheduling of the workers, and a stop() that has been called returns
\* once its joins can.
RestartSpec ==
    /\ Init
    /\ [][RestartNext]_vars
    /\ \A w \in Workers : WF_vars(WorkerStep(w))
    /\ WF_vars(StopJoined)

\* A running pool whose delivery functions may call unregister_receiver; a
\* worker inside such a call takes no other step until the call returns.
ReentrantNext ==
    \/ \E w \in Workers : ~Calling(w) /\ RunningWorkerStep(w)
    \/ \E w \in Workers, r \in Receivers : CallbackUnregisters(w, r)
    \/ ClientStep
    \/ Start

ReentrantSpec == Init /\ [][ReentrantNext]_vars

\* Fair scheduling: a worker that can take a step eventually takes one (a
\* callback returns, a worker waiting for the pool lock gets it).
RunningSpec ==
    /\ Init
    /\ [][RunningNext]_vars
    /\ \A w \in Workers : WF_vars(RunningWorkerStep(w))

-----------------------------------------------------------------------------
(* Properties *)

\* the registration objects created so far
Created == 1..nextReg

\* the registrations in the list
Registered == Range(receivers)

\* worker w is running the filter or the delivery function for registration reg
InCallback(w, reg) == job[w] = reg /\ pc[w] \in {"filter", "deliver"}

\* worker w has claimed registration reg and not yet finished the work
Owns(w, reg) == job[w] = reg /\ pc[w] \in {"get", "filter", "deliver", "fin", "fin_locked"}

\* the messages of s that pass the filter of registration reg
Passing(reg, s) == SelectSeq(s, LAMBDA m : FilterResult(regReceiver[reg], m))

AllButLast(s) == IF s = <<>> THEN s ELSE SubSeq(s, 1, Len(s) - 1)

\* C1: per registration, the messages are taken in push order without gaps
\* (the n-th message taken is the n-th message pushed since the registration),
\* and the delivery function has been called with exactly those of them that
\* pass the filter, in that order; only the message taken last may still be
\* waiting for its filter result.
C1_DeliveredInPushOrder ==
    \A reg \in Created :
        /\ \A i \in 1..Len(popped[reg]) : popped[reg][i] = regFrom[reg] + i
        /\ \/ delivered[reg] = Passing(reg, popped[reg])
           \/ /\ delivered[reg] = Passing(reg, AllButLast(popped[reg]))
              /\ processing[reg]
              /\ \/ \E w \in Workers : job[w] = reg /\ pc[w] = "filter"
                 \/ raises > 0

\* C1 witness: two messages delivered to one registration while the other
\* worker was busy too
C1_Witness ==
    \E reg \in Created :
        /\ delivered[reg] = <<regFrom[reg] + 1, regFrom[reg] + 2>>
        /\ raises = 0
        /\ \E w \in Workers : \E other \in Created : other # reg /\ Owns(w, other)

\* C2: at most one worker runs the filter or the delivery function for a
\* registration (and at most one worker owns its claim).
C2_OneDeliveryPerRegistration ==
    \A reg \in Created :
        /\ Cardinality({w \in Workers : InCallback(w, reg)}) <= 1
        /\ Cardinality({w \in Workers : Owns(w, reg)}) <= 1

\* C2 witness: one worker is in a callback for a registration that has more
\* messages queued while the other worker holds the lock and scans for a job
C2_Witness ==
    \E reg \in Created : \E w1, w2 \in Workers :
        /\ InCallback(w1, reg)
        /\ queue[reg] # <<>>
        /\ pc[w2] = "locked" /\ jobsAvailable /\ ~interrupted

\* unregister_receiver returns in this step
UnregisterReturns == unreg.pc = "check" /\ unreg'.pc = "idle"

\* C3: a call of unregister_receiver that removed one registration returns
\* only when the processing flag of that registration is cleared and no
\* worker owns it; while the caller is blocked the flag is set; and once the
\* flag is cleared it stays cleared, the caller is not blocked, and the next
\* step of the caller is the return.
C3_UnregisterWaitsForDelivery ==
    /\ [][UnregisterReturns /\ Cardinality(unreg.gone) = 1 =>
            \A reg \in unreg.gone :
                ~processing[reg] /\ ~\E w \in Workers : Owns(w, reg)]_vars
    /\ [](unreg.pc = "blocked" => processing[unreg.removed])
    /\ [][\A reg \in RegIds :
            (unreg.pc # "idle" /\ unreg.gone = {reg} /\ ~processing[reg]) =>
                /\ unreg.pc = "check"
                /\ ~processing'[reg]
                /\ unreg' = unreg \/ (unreg'.pc = "idle" /\ reg \in unregDone')]_vars

\* C3 witness: the caller is blocked on its single removed registration while
\* a worker is in the delivery function for it
C3_Witness ==
    /\ unreg.pc = "blocked"
    /\ Cardinality(unreg.gone) = 1
    /\ \E w \in Workers : job[w] = unreg.removed /\ pc[w] = "deliver"

\* message m of registration reg has been taken from the queue, the filter
\* has returned for it, and the delivery function has been called if it passed
Handled(reg, m) ==
    /\ m \in Range(popped[reg])
    /\ ~\E w \in Workers : job[w] = reg /\ msg[w] = m /\ pc[w] = "filter"
    /\ FilterResult(regReceiver[reg], m) => m \in Range(delivered[reg])

\* C5: in a pool that is started and not stopped, with callbacks that return,
\* every message in the queue of a registration that stays in the list is
\* eventually taken and handled: again and again the pool reaches a state in
\* which no registration of the list has a message queued and every message
\* taken from its queue has been handled.
C5_NoLostWakeup ==
    []<>(started =>
            \A reg \in Registered :
                /\ queue[reg] = <<>>
                /\ \A m \in Range(popped[reg]) : Handled(reg, m))

\* C5 witness: the messages of a registration have all been taken and handled
\* and every worker is waiting on the condition again
C5_Witness ==
    \E reg \in Registered :
        /\ started /\ raises = 0
        /\ popped[reg] # <<>>
        /\ \A m \in Range(popped[reg]) : Handled(reg, m)
        /\ queue[reg] = <<>>
        /\ \A w \in Workers : pc[w] = "wait"

\* C4: after unregister_receiver(r) has returned, none of the registrations
\* of r it removed is in the list, and no worker has a claim on one of them
\* or runs a callback for it.
C4_NoCallbackAfterUnregister ==
    \A reg \in unregDone :
        /\ reg \notin Registered
        /\ ~\E w \in Workers : job[w] = reg /\ pc[w] \in {"get", "filter", "deliver"}

\* C6: a worker that has left _next_job and is at the queue, in the filter or
\* in the delivery function does not hold the pool lock: the lock is held only
\* inside _next_job and _finished_work, and whenever no thread is inside them
\* push and register_receiver can run.
C6_CallbacksOutsideLock ==
    /\ \A w \in Workers :
          pc[w] \in {"get", "filter", "deliver", "fin"} => lock # w
    /\ lock # NoThread => pc[lock] \in {"locked", "fin_locked"}
    /\ (\A w \in Workers : pc[w] \notin {"locked", "fin_locked"}) =>
          /\ pushCount < MaxPush => ENABLED Push
          /\ nextReg < MaxRegs => ENABLED RegisterReceiver("rA")

\* C6 witness: while one worker is in the delivery function, a message is
\* pushed and the other worker delivers it to another registration
C6_Witness ==
    \E w1, w2 \in Workers :
        /\ pc[w1] = "deliver" /\ pc[w2] = "deliver"
        /\ job[w1] # job[w2]
        /\ msg[w1] < msg[w2]
        /\ lock = NoThread

\* stop() returns in this step
StopReturns == ctl = "join" /\ ctl' = "idle"

\* C7: stop() returns only when every worker thread has ended; then no
\* registration is left claimed or in a callback, except one whose callback
\* raised; while the interrupted flag is set no registration is claimed; and
\* stop() on a pool that is not started does not wait.
C7_StopJoinsWorkers ==
    /\ [][StopReturns => \A w \in Workers : pc[w] \in {"off", "done"}]_vars
    /\ []((ctl = "idle" /\ ~started) =>
            /\ \A w \in Workers : pc[w] \in {"off", "done"}
            /\ Cardinality({reg \in Created : processing[reg]}) <= raises
            /\ \A reg \in Created :
                  ~processing[reg] =>
                      \A m \in Range(popped[reg]) : Handled(reg, m))
    /\ [][interrupted => \A reg \in RegIds : processing'[reg] => processing[reg]]_vars
    /\ []((ctl = "join" /\ ~started) => Joined)

\* C7 witness: stop() is waiting in join, one worker has ended, the other one
\* has just returned from a delivery it had claimed before
C7_Witness ==
    /\ ctl = "join" /\ started /\ interrupted
    /\ \E w1, w2 \in Workers :
          /\ pc[w1] = "done"
          /\ pc[w2] = "fin" /\ delivered[job[w2]] # <<>>
          /\ queue[job[w2]] # <<>>

\* C8: the processing flag of a registration is set only while a worker owns
\* its claim, also after a filter or delivery function has raised.
C8_FlagClearedAfterRaise ==
    \A reg \in Created : processing[reg] => \E w \in Workers : Owns(w, reg)

\* C9: start() on a running pool raises RuntimeError and changes nothing else.
C9_StartWhileRunning ==
    /\ [][(Start /\ started) =>
            /\ ctlResult' = "RuntimeError"
            /\ UNCHANGED <<registry, queue, processing, jobsAvailable,
                           currentPosition, fixed, lock, pc, job, msg,
                           unreg, started, interrupted, threadPool, ctl,
                           history>>]_vars
    /\ [](ctlResult = "RuntimeError" => started)

\* C9 witness: start() has raised while a worker was in the delivery function
C9_Witness ==
    /\ ctlResult = "RuntimeError"
    /\ \E w \in Workers : pc[w] = "deliver"

\* the messages a registration has got are those pushed since it was
\* registered, each once and in order; while it is in the list, all of them
QueueContents ==
    \A reg \in Created :
        LET got == popped[reg] \o queue[reg]
        IN  /\ \A i \in 1..Len(got) : got[i] = regFrom[reg] + i
            /\ regFrom[reg] + Len(got) <= pushCount
            /\ reg \in Registered => regFrom[reg] + Len(got) = pushCount

\* C10 as stated: the queue contents are as above, and no message taken from
\* the queue of a registration after it was unregistered is delivered.
C10_Original ==
    /\ QueueContents
    /\ \A w \in Workers : pc[w] = "deliver" => ~late[w]

\* C10 as amended: the queue contents are as above; a registration taken out
\* of the list gets no further message and is never claimed again; the only
\* message that still leaves its queue is the head, taken by the worker that
\* had claimed the registration before it was unregistered.
C10_OnlyPushedWhileRegistered ==
    /\ []QueueContents
    /\ [][\A reg \in Created \ Registered :
            /\ processing'[reg] => processing[reg]
            /\ \/ queue'[reg] = queue[reg]
               \/ /\ queue[reg] # <<>> /\ queue'[reg] = Tail(queue[reg])
                  /\ processing[reg]
                  /\ \E w \in Workers : job[w] = reg /\ pc[w] = "get"]_vars
    /\ [](\A w \in Workers : late[w] => processing[job[w]])

\* C10 witness: a registration was unregistered with messages in its queue,
\* the claimed one has been delivered since, the rest stays
C10_Witness ==
    \E reg \in Created \ Registered :
        /\ queue[reg] # <<>>
        /\ ~processing[reg]
        /\ reg \in unregDone
        /\ delivered[reg] # <<>>

\* C11: the filter function is entered exactly when a message is taken from
\* the queue of the claimed registration, with that registration's receiver
\* and that message; when it returns, the delivery function is called with the
\* same pair if and only if it returned true; the delivery function is called
\* at no other point; and a message taken from the queue is never in the
\* queue again, and if rejected never among the delivered ones.
C11_FilterDecidesDelivery ==
    /\ [][\A w \in Workers :
            (pc[w] # "filter" /\ pc'[w] = "filter") =>
                /\ pc[w] = "get" /\ job'[w] = job[w]
                /\ queue[job[w]] # <<>>
                /\ msg'[w] = Head(queue[job[w]])
                /\ popped'[job[w]] = Append(popped[job[w]], msg'[w])]_vars
    /\ [][\A reg \in RegIds :
            popped'[reg] # popped[reg] =>
                \E w \in Workers :
                    job[w] = reg /\ pc[w] = "get" /\ pc'[w] = "filter"]_vars
    /\ [][\A w \in Workers :
            (pc[w] = "filter" /\ pc'[w] # "filter") =>
                \/ /\ pc'[w] = "deliver"
                   /\ FilterResult(regReceiver[job[w]], msg[w])
                   /\ job'[w] = job[w] /\ msg'[w] = msg[w]
                   /\ delivered'[job[w]] = Append(delivered[job[w]], msg[w])
                \/ /\ pc'[w] = "fin"
                   /\ ~FilterResult(regReceiver[job[w]], msg[w])
                   /\ delivered' = delivered
                \/ /\ pc'[w] = "done"
                   /\ raises' = raises + 1
                   /\ delivered' = delivered]_vars
    /\ [][\A reg \in RegIds :
            delivered'[reg] # delivered[reg] =>
                \E w \in Workers :
                    job[w] = reg /\ pc[w] = "filter" /\ pc'[w] = "deliver"]_vars
    /\ [](\A reg \in Created :
            /\ \A i, j \in 1..Len(popped[reg]) :
                  popped[reg][i] = popped[reg][j] => i = j
            /\ \A m \in Range(popped[reg]) :
                  /\ m \notin Range(queue[reg])
                  /\ ~FilterResult(regReceiver[reg], m) =>
                        m \notin Range(delivered[reg]))

\* C11 witness: of two messages taken from the queue of one registration, the
\* first was rejected by the filter and the second has been delivered
C11_Witness ==
    \E reg \in Created :
        /\ Len(popped[reg]) = 2
        /\ ~FilterResult(regReceiver[reg], popped[reg][1])
        /\ delivered[reg] = <<popped[reg][2]>>
        /\ \A w \in Workers : job[w] # reg

\* the smaller of two numbers
Min(a, b) == IF a <= b THEN a ELSE b

\* C12: the deliveries in progress at one time are to distinct registrations,
\* so there are at most min(thread_pool_size, number of registrations) of
\* them; with two workers and two registrations that each have a message,
\* two deliveries are in progress at the same time (the witness).
C12_ParallelDeliveries ==
    /\ Cardinality({w \in Workers : pc[w] = "deliver"}) <= Min(NumWorkers, nextReg)
    /\ \A w1, w2 \in Workers :
          (pc[w1] = "deliver" /\ pc[w2] = "deliver" /\ w1 # w2) => job[w1] # job[w2]

\* C12 witness: as many deliveries in progress as there are workers, and as
\* there are registrations, each to another registration
C12_Witness ==
    /\ Cardinality({w \in Workers : pc[w] = "deliver"}) = Min(NumWorkers, nextReg)
    /\ nextReg = MaxRegs
    /\ Cardinality({job[w] : w \in Workers}) = NumWorkers
    /\ NoReg \notin {job[w] : w \in Workers}

\* the calls of add made so far with fragments of event m, in order
CallsFor(m) ==
    SelectSeq(addLog, LAMBDA e :
        /\ e.fragment.notification.event_id.sender_id = m.sender_id
        /\ e.fragment.notification.event_id.sequence_number = m.sequence_number)

\* the first j of these calls were made with j different fragments of m
Distinct(calls, j, m) ==
    /\ \A a \in 1..j : calls[a].fragment \in FragmentsOf(m)
    /\ \A a, b \in 1..j : calls[a].fragment = calls[b].fragment => a = b

RECURSIVE Concat(_)
\* the payload of an event: its chunks one after the other
Concat(chunks) ==
    IF chunks = <<>> THEN <<>> ELSE Head(chunks) \o Concat(Tail(chunks))

\* the fragment of event m that carries part 0
PartZero(m) == CHOOSE fragment \in FragmentsOf(m) : fragment.data_part = 0

\* C13: for an event of n >= 2 fragments fed to add, each fragment once and
\* in any order, the first n-1 calls return None and the n-th call returns
\* the notification of part 0, the payload of the event (its chunks in
\* ascending part index) and the wire schema of part 0.
C13_ReassemblyInAnyOrder ==
    \A m \in Messages :
        LET n == Len(m.chunks)
            calls == CallsFor(m)
        IN  n >= 2 =>
              \A j \in 1..Min(n, Len(calls)) :
                  Distinct(calls, j, m) =>
                      calls[j].result =
                          IF j < n
                          THEN Returns("None")
                          ELSE Result(PartZero(m).notification,
                                      Concat(m.chunks), m.wire_schema)

\* C13 witness: the three fragments of an event were fed with part 0 last and
\* part 2 first, and the third call returned the event
C13_Witness ==
    \E m \in Messages :
        /\ Len(m.chunks) = 3
        /\ Len(CallsFor(m)) = 3
        /\ CallsFor(m)[1].fragment.data_part = 2
        /\ CallsFor(m)[2].fragment.data_part = 1
        /\ CallsFor(m)[3].fragment.data_part = 0
        /\ CallsFor(m)[3].result.kind = "result"

\* the event (sender id, sequence number) a fragment belongs to
EventId(fragment) == fragment.notification.event_id

\* the payloads that can be made of fragments of the event with the given
\* id and n parts: for every part index the chunk of one of them
OwnPayloads(id, n) ==
    LET own == {fragment \in BusFragments : fragment.notification.event_id = id}
        choices == {c \in [1..n -> own] : \A i \in 1..n : c[i].data_part = i - 1}
    IN  {Concat([i \in 1..n |-> c[i].notification.data]) : c \in choices}

\* Assembly object i holds parts of the event thread t is adding a fragment of
OfAddedEvent(i, t) ==
    /\ adder[t].pc # "idle"
    /\ \A part \in DOMAIN objects[i].parts :
          EventId(objects[i].parts[part]) = EventId(adder[t].fragment)

\* C14: every assembly holds fragments of one event only, each under its own
\* part index; every event returned is the event of the fragment that
\* completed it with exactly its own chunks as payload; and a step of add
\* changes, adds to the pool or removes from it only an assembly of the event
\* whose fragment is being added.
C14_NoCrossContamination ==
    /\ [](\A i \in 1..Len(objects) :
            \A p, q \in DOMAIN objects[i].parts :
                /\ EventId(objects[i].parts[p]) = EventId(objects[i].parts[q])
                /\ objects[i].parts[p].data_part = p)
    /\ [](\A c \in 1..Len(addLog) :
            addLog[c].result.kind = "result" =>
                /\ addLog[c].result.notification.event_id = EventId(addLog[c].fragment)
                /\ addLog[c].result.data \in
                       OwnPayloads(EventId(addLog[c].fragment),
                                   addLog[c].fragment.num_data_parts))
    /\ [][/\ \A i \in 1..Len(objects) :
               objects'[i] # objects[i] => OfAddedEvent(i, 1)
          /\ \A k \in DOMAIN assemblies :
               (k \notin DOMAIN assemblies' \/ assemblies'[k] # assemblies[k]) =>
                   OfAddedEvent(assemblies[k], 1)
          /\ \A k \in DOMAIN assemblies' \ DOMAIN assemblies :
               /\ adder[1].pc # "idle"
               /\ objects'[assemblies'[k]].parts =
                      (adder[1].fragment.data_part :> adder[1].fragment)]_vars

\* C14 witness: the fragments of two events were fed alternately, and both
\* events have been returned
C14_Witness ==
    /\ Len(addLog) = 5
    /\ \A c \in 1..3 : EventId(addLog[c].fragment) # EventId(addLog[c + 1].fragment)
    /\ EventId(addLog[1].fragment) = EventId(addLog[3].fragment)
    /\ EventId(addLog[2].fragment) = EventId(addLog[4].fragment)
    /\ addLog[4].result.kind = "result"
    /\ addLog[5].result.kind = "result"
    /\ addLog[5].fragment.num_data_parts = 3

\* thread t is in a call of add, has not stored anything yet, and the part
\* index of its fragment is stored in the assembly in progress for its key
DuplicateCall(t) ==
    /\ adder[t].pc \in {"test", "lookup", "check"}
    /\ AdderKey(t) \in DOMAIN assemblies
    /\ adder[t].fragment.data_part \in DOMAIN objects[assemblies[AdderKey(t)]].parts

\* C15: a call of add with a fragment whose part index is already stored in
\* the assembly in progress for its key changes neither the pool nor any
\* assembly (the fragment seen first and the number of parts stay, the
\* assembly stays in the pool), and it ends with ValueError; add ends with
\* ValueError in no other case.
C15_DuplicateFragmentRejected ==
    /\ [][DuplicateCall(1) =>
            /\ assemblies' = assemblies
            /\ objects' = objects
            /\ \/ addLog' = addLog /\ DuplicateCall(1)'
               \/ addLog' = Append(addLog, [fragment |-> adder[1].fragment,
                                            result |-> Returns("ValueError")])]_vars
    /\ [][(addLog' # addLog /\ addLog'[Len(addLog')].result.kind = "ValueError") =>
            DuplicateCall(1)]_vars

\* C15 witness: the resent part was refused with ValueError, and the part
\* seen first is still stored in the assembly, which is still in the pool
C15_Witness ==
    /\ addLog # <<>>
    /\ addLog[Len(addLog)] = [fragment |-> Resent, result |-> Returns("ValueError")]
    /\ makeKey(Resent.notification) \in DOMAIN assemblies
    /\ LET assembly == objects[assemblies[makeKey(Resent.notification)]]
       IN  /\ DOMAIN assembly.parts = {1}
           /\ assembly.parts[1].notification.data = <<8>>

\* the add call that returns in this step, if one does
LastCall == addLog'[Len(addLog')]

\* C16: between calls of add every assembly in the pool has requiredParts > 1
\* and at least 1 and at most requiredParts - 1 parts; a fragment with
\* num_data_parts = 1 is returned by the step that calls add, which changes
\* neither the pool nor an assembly, and no other fragment is; and an assembly
\* leaves the pool exactly in the call that stored its last missing part and
\* returns the event.
C16_PoolHoldsIncompleteAssemblies ==
    /\ [](adder[1].pc = "idle" =>
            \A k \in DOMAIN assemblies :
                LET assembly == objects[assemblies[k]]
                IN  /\ assembly.requiredParts > 1
                    /\ Cardinality(DOMAIN assembly.parts) >= 1
                    /\ Cardinality(DOMAIN assembly.parts) <= assembly.requiredParts - 1)
    /\ [](adder[1].pc # "idle" => adder[1].fragment.num_data_parts # 1)
    /\ [][(adder[1].pc = "idle" /\ addLog' # addLog) =>
            /\ LastCall.fragment.num_data_parts = 1
            /\ LastCall.result = Result(LastCall.fragment.notification,
                                        LastCall.fragment.notification.data,
                                        LastCall.fragment.notification.wire_schema)
            /\ adder'[1].pc = "idle"
            /\ assemblies' = assemblies /\ objects' = objects]_vars
    /\ [][\A k \in DOMAIN assemblies :
            k \notin DOMAIN assemblies' =>
                LET assembly == objects[assemblies[k]]
                IN  /\ adder[1].pc = "delete" /\ adder[1].obj = assemblies[k]
                    /\ DOMAIN assembly.parts = 0..(assembly.requiredParts - 1)
                    /\ assembly.parts[adder[1].fragment.data_part] = adder[1].fragment
                    /\ addLog' = Append(addLog, [fragment |-> adder[1].fragment,
                                                 result |-> adder[1].result])
                    /\ adder[1].result.kind = "result"
                    /\ adder'[1].pc = "idle"]_vars
    /\ [][(addLog' # addLog /\ LastCall.result.kind = "result"
                            /\ LastCall.fragment.num_data_parts > 1) =>
            /\ makeKey(LastCall.fragment.notification) \in DOMAIN assemblies
            /\ makeKey(LastCall.fragment.notification) \notin DOMAIN assemblies']_vars

\* C16 witness: a fragment with one part was returned while an assembly was
\* in progress, which is still in the pool with one part of two; then the
\* third part of another event completed that one, which has left the pool
C16_Witness ==
    /\ adder[1].pc = "idle"
    /\ Len(addLog) = 5
    /\ addLog[2].fragment.num_data_parts = 1
    /\ addLog[5].fragment.num_data_parts = 3
    /\ addLog[5].result.kind = "result"
    /\ Cardinality(DOMAIN assemblies) = 1
    /\ \A k \in DOMAIN assemblies :
          /\ objects[assemblies[k]].requiredParts = 2
          /\ Cardinality(DOMAIN objects[assemblies[k]].parts) = 1

\* C17: the receive loop does not end because add raised ValueError for a
\* duplicate fragment.
C17_DuplicateDoesNotEndLoop ==
    ~(/\ recvPc = "raised"
      /\ addLog[Len(addLog)].result.kind = "ValueError")

\* C18: with several threads adding the fragments of the events, each
\* fragment once: no two Assembly objects are created for one key; a part
\* whose add returned None is in the assembly the pool holds for its key,
\* unless its event has been returned or is about to be; and no add fails
\* with KeyError on the pool map.
C18_ConcurrentAddAtomic ==
    /\ \A i, j \in 1..Len(objects) : objects[i].id = objects[j].id => i = j
    /\ \A c \in 1..Len(addLog) :
          addLog[c].result.kind = "None" =>
              LET key == makeKey(addLog[c].fragment.notification)
                  part == addLog[c].fragment.data_part
              IN  \/ /\ key \in DOMAIN assemblies
                     /\ part \in DOMAIN objects[assemblies[key]].parts
                  \/ \E d \in 1..Len(addLog) :
                        /\ addLog[d].result.kind = "result"
                        /\ makeKey(addLog[d].fragment.notification) = key
                  \/ \E t \in Adders :
                        /\ adder[t].pc = "delete"
                        /\ AdderKey(t) = key
    /\ \A c \in 1..Len(addLog) : addLog[c].result.kind # "KeyError"

\* the subscriber count stored for a group, 0 when none is stored
Count(subscribers, groupName) ==
    IF groupName \in DOMAIN subscribers THEN subscribers[groupName] ELSE 0

\* the group names of the scopes
GroupNames == {GroupName(scope) : scope \in Scopes}

\* C19: every stored subscriber count is positive; a step changes the count
\* of a group by one at most; the connection joins a group only in a
\* filterNotify ADD step that takes the count of the group from 0 to 1, and
\* every such step joins it; it leaves a group only in a REMOVE step that
\* takes the count from 1 to 0 (or when the connection is closed), and every
\* such step leaves it; and a REMOVE for a group without a count changes
\* neither counts nor memberships and raises nothing.
C19_GroupReferenceCount ==
    /\ [](\A g \in DOMAIN groupNameSubscribers : groupNameSubscribers[g] > 0)
    /\ [][\A g \in GroupNames :
            LET before == Count(groupNameSubscribers, g)
                after == Count(groupNameSubscribers', g)
                call == portCall'
            IN  /\ after \in {before - 1, before, before + 1}
                /\ after # before =>
                      /\ connection # NoConnection /\ notified' = notified + 1
                      /\ call.op = "filterNotify" /\ call.outcome = "ok"
                      /\ call.filter.class = "ScopeFilter"
                      /\ GroupName(call.filter.scope) = g
                      /\ call.action = IF after > before THEN "ADD" ELSE "REMOVE"
                /\ (g \notin membership /\ g \in membership') =>
                      before = 0 /\ after = 1
                /\ (before = 0 /\ after = 1) => g \in membership'
                /\ (g \in membership /\ g \notin membership') =>
                      \/ before = 1 /\ after = 0
                      \/ connection # NoConnection /\ connection' = NoConnection
                /\ (before = 1 /\ after = 0) => g \notin membership']_vars
    /\ [][(/\ notified' = notified + 1
           /\ connection # NoConnection
           /\ portCall'.action = "REMOVE"
           /\ portCall'.filter.class = "ScopeFilter"
           /\ Count(groupNameSubscribers, GroupName(portCall'.filter.scope)) = 0) =>
              /\ portCall'.outcome = "ok"
              /\ UNCHANGED <<groupNameSubscribers, membership, connection,
                             openConnections, threadState>>]_vars

\* C19 witness: after ADD, ADD and REMOVE for one scope the count of its
\* group is 1 and the connection is still a member of the group
C19_Witness ==
    /\ notified = 3
    /\ portCall = Call("filterNotify", [class |-> "ScopeFilter", scope |-> "/"],
                       "REMOVE", "ok")
    /\ groupNameSubscribers = (GroupName("/") :> 1)
    /\ membership = {GroupName("/")}

\* the receive threads that have been started and have not ended
LiveThreads == {n \in PortThreads : threadState[n] \in {"running", "interrupted"}}

\* C20 as stated: at any time there is at most one open connection and at
\* most one receive thread, and no activate or deactivate call raises.
C20_Original ==
    /\ Cardinality(openConnections) <= 1
    /\ Cardinality(LiveThreads) <= 1
    /\ portCall.op \in {"activate", "deactivate"} => portCall.outcome = "ok"

\* C20 as amended: activate on an active port and deactivate on an inactive
\* port change nothing and raise nothing; there is at most one open
\* connection, the one of the port, and at most one receive thread that has
\* not been interrupted, the one of the port; a connection is opened only by
\* an activate on an inactive port and closed only by a deactivate on an
\* active one.
C20_ActivateDeactivateIdempotent ==
    /\ [][(Activate /\ connection # NoConnection) =>
            UNCHANGED <<connects, connection, openConnections, membership,
                        receiveThread, threadState, groupNameSubscribers,
                        portPc>>]_vars
    /\ [][(DeactivateInterrupt /\ connection = NoConnection) =>
            UNCHANGED <<connects, connection, openConnections, membership,
                        receiveThread, threadState, groupNameSubscribers,
                        portPc>>]_vars
    /\ [](portCall.op \in {"activate", "deactivate"} => portCall.outcome = "ok")
    /\ [](/\ openConnections = IF connection = NoConnection THEN {} ELSE {connection}
          /\ {n \in PortThreads : threadState[n] = "running"} \subseteq {receiveThread}
          /\ (receiveThread = NoThread) <=> (connection = NoConnection))
    /\ [][/\ openConnections' \ openConnections # {} =>
               /\ connection = NoConnection /\ connection' # NoConnection
               /\ portCall'.op = "activate"
          /\ openConnections \ openConnections' # {} =>
               /\ connection # NoConnection /\ connection' = NoConnection
               /\ portCall'.op = "deactivate"]_vars

\* C20 witness: the port was activated, deactivated and activated again; the
\* thread of the first activation, interrupted by deactivate, has not ended
\* and runs beside the thread of the second
C20_Witness ==
    /\ connection = 2
    /\ portCall = Call("activate", NoFilter, "", "ok")
    /\ threadState[1] = "interrupted"
    /\ threadState[2] = "running"

-----------------------------------------------------------------------------
(* SpreadReceiverTask.setObserverAction *)

\* the action installed once n setObserverAction calls have returned
Installed(n) == IF n = 0 THEN InitialAction ELSE setLog[n]

\* C21: setObserverAction, called by another thread at any time, excludes
\* the call of the observer action: every event reaches the action that the
\* last call returned before had installed (no action replaced before is
\* called again), and no call returns while the action installed before it
\* is executing.
C21_SetObserverActionExclusive ==
    /\ \A i \in 1..Len(observed) :
          observed[i].action = Installed(observed[i].sets)
    /\ recvPc = "action" => observed[Len(observed)].sets = Len(setLog)

\* a first event went to the initial action, setObserverAction("a1") has
\* returned, and the next event is inside a1
C21_Witness ==
    /\ Len(observed) >= 2
    /\ observed[1].action = InitialAction
    /\ observed[Len(observed)].action = "a1"
    /\ observed[Len(observed)].sets > 0
    /\ recvPc = "action"

-----------------------------------------------------------------------------
(* Informer.publishEvent *)

\* the events that have got a sequence number: those of the calls that
\* have ended without ValueError and those of the threads past the assignment
Numbered ==
    {<<"call", c>> : c \in {d \in 1..Len(pubLog) : pubLog[d].outcome # "ValueError"}}
        \cup {<<"thread", t>> : t \in {u \in Publishers :
                                          publisher[u].pc \in {"increment", "route"}}}

\* the sequence number of such an event
NumberOf(x) ==
    IF x[1] = "call"
    THEN pubLog[x[2]].event.sequenceNumber
    ELSE publisher[x[2]].event.sequenceNumber

\* C22: the events published through the informer get the sequence numbers
\* 0, 1, 2, ... whatever number the caller left in them: no two of them get
\* the same number, also when the calls overlap, and the counter is the
\* number of events that have passed the increment.
C22_SequenceNumbersUnique ==
    /\ \A x, y \in Numbered : NumberOf(x) = NumberOf(y) => x = y
    /\ {NumberOf(x) : x \in Numbered} = 0..(Cardinality(Numbered) - 1)
    /\ sequenceNumber =
           Cardinality({x \in Numbered :
                           x[1] = "thread" => publisher[x[2]].pc # "increment"})

\* one event has been published with number 0; a thread holds the mutex
\* and has numbered its event, which came with the number 0, with 1; the
\* other thread waits for the mutex
C22_Witness ==
    /\ \E c \in 1..Len(pubLog) :
          /\ pubLog[c].outcome = "returned"
          /\ pubLog[c].event.sequenceNumber = 0
    /\ \E t, u \in Publishers :
          /\ publisher[t].pc = "increment"
          /\ publisher[t].event.sequenceNumber = 1
          /\ mutex = t
          /\ publisher[u].pc = "lock"
          /\ \E c \in 1..Len(pubLog) : pubLog[c].thread = u

\* C23: publishEvent raises ValueError exactly for the events whose scope
\* is neither the scope of the informer nor a sub-scope of it, or whose
\* type is not the type of the informer; and an event is passed to the
\* router only by a call that does not raise ValueError.
C23_SubScopeAccepted ==
    /\ \A c \in 1..Len(pubLog) :
          pubLog[c].outcome = "ValueError" <=>
              \/ ~(\/ pubLog[c].given.scope = InformerScope
                   \/ isSubScopeOf(pubLog[c].given.scope, InformerScope))
              \/ pubLog[c].given.type # InformerType
    /\ Len(published) =
           Cardinality({c \in 1..Len(pubLog) : pubLog[c].outcome # "ValueError"})

-----------------------------------------------------------------------------
(* Future *)

\* C24: a get call with timeout > 0 raises FutureTimeout only when its
\* wait ended without a result: never when a set call woke it within the
\* timeout and the result is available.
C24_TimeoutOnlyWithoutResult ==
    \A c \in 1..Len(getLog) :
        (getLog[c].timeout > 0 /\ getLog[c].outcome = "FutureTimeout") =>
            ~(getLog[c].cause = "notify" /\ getLog[c].available)

\* C25: once setError has set its message, no thread is left waiting in
\* get() without having been woken.
C25_SetErrorWakesAllWaiters ==
    (futError /\ futResult # "None") =>
        \A t \in Getters : ~(getter[t].pc = "wait" /\ t \in waiters)

\* C26: isDone() returns True exactly when set or setError has been
\* called, whatever the result; after True it does not return False; and
\* after such a call no thread is left waiting in get().
C26_DoneIffSet ==
    /\ \A i \in 1..Len(doneLog) :
          doneLog[i].returned <=> doneLog[i].setCalls > 0
    /\ \A i, j \in 1..Len(doneLog) :
          (i < j /\ doneLog[i].returned) => doneLog[j].returned
    /\ setCalls > 0 =>
          \A t \in Getters : ~(getter[t].pc = "wait" /\ t \in waiters)

-----------------------------------------------------------------------------
(* Scope *)

\* the components of a are the first components of b, and b has more
ProperPrefix(a, b) ==
    /\ Len(a) < Len(b)
    /\ \A i \in 1..Len(a) : a[i] = b[i]

\* C27: a.isSubScopeOf(b) holds exactly when b.isSuperScopeOf(a) does and
\* exactly when the components of b are a proper prefix of those of a; both
\* are false for a = b; and a.isSubScopeOf(b) excludes a.isSuperScopeOf(b).
C27_SubAndSuperScope ==
    LET a == theScope.components
        b == scopeCall.other
    IN  /\ scopeCall.op = "isSubScopeOf" =>
              /\ scopeCall.flag <=> ProperPrefix(b, a)
              /\ scopeCall.flag <=> isSuperScopeOf(b, a)
              /\ a = b => ~scopeCall.flag
              /\ scopeCall.flag => ~isSuperScopeOf(a, b)
        /\ scopeCall.op = "isSuperScopeOf" =>
              /\ scopeCall.flag <=> ProperPrefix(a, b)
              /\ scopeCall.flag <=> isSubScopeOf(b, a)
              /\ a = b => ~scopeCall.flag

\* a scope of two components is a sub-scope of the scope of its first component
C27_Witness ==
    /\ scopeCall.op = "isSubScopeOf"
    /\ scopeCall.flag
    /\ Len(theScope.components) = 2
    /\ Len(scopeCall.other) = 1

\* the list holds, in this order, the prefixes of s of the lengths 0..last
PrefixesUpTo(list, s, last) ==
    /\ Len(list) = last + 1
    /\ \A i \in 1..Len(list) :
          /\ Len(list[i]) = i - 1
          /\ \A k \in 1..(i - 1) : list[i][k] = s[k]

\* C28: for a scope s of n components superScopes(True) is the list of
\* its n + 1 prefixes from the root to s, superScopes(False) the same list
\* without s (empty for the root); every element but s is a strict super
\* scope of s; and s is still the scope that was made from the string.
C28_SuperScopes ==
    scopeCall.op = "superScopes" =>
        LET s == theScope.components
        IN  /\ scopeCall.includeSelf => PrefixesUpTo(scopeCall.list, s, Len(s))
            /\ ~scopeCall.includeSelf => PrefixesUpTo(scopeCall.list, s, Len(s) - 1)
            /\ \A i \in 1..Len(scopeCall.list) :
                  scopeCall.list[i] # s => ProperPrefix(scopeCall.list[i], s)
            /\ theScope = NewScope(scopeString)

\* superScopes(False) of a scope of two components: the root and the
\* scope of its first component
C28_Witness ==
    /\ scopeCall.op = "superScopes"
    /\ ~scopeCall.includeSelf
    /\ Len(theScope.components) = 2
    /\ Len(scopeCall.list) = 2

\* C29: for every string that parses, the string toString returns parses to
\* an equal scope and begins and ends with the separator; and the string
\* with the trailing separator added or taken away parses to an equal scope.
C29_ToStringRoundTrip ==
    scopeCall.op = "toString" =>
        LET s == scopeString
            string == scopeCall.string
        IN  /\ NewScope(string).constructed
            /\ ScopeEq(NewScope(string).components, theScope.components)
            /\ string[1] = Separator
            /\ string[Len(string)] = Separator
            /\ s[Len(s)] # Separator =>
                  /\ NewScope(Append(s, Separator)).constructed
                  /\ ScopeEq(NewScope(Append(s, Separator)).components,
                             theScope.components)
            /\ (s[Len(s)] = Separator /\ Len(s) > 1) =>
                  /\ NewScope(SubSeq(s, 1, Len(s) - 1)).constructed
                  /\ ScopeEq(NewScope(SubSeq(s, 1, Len(s) - 1)).components,
                             theScope.components)

\* toString of the scope made from a string of two components without
\* trailing separator
C29_Witness ==
    /\ scopeCall.op = "toString"
    /\ scopeString[Len(scopeString)] # Separator
    /\ Len(theScope.components) = 2
    /\ Len(scopeCall.string) = Len(scopeString) + 1

\* the strings that are no scope: empty, not starting with the separator,
\* with two separators in a row, or with a character that is neither the
\* separator nor of the class [a-zA-Z0-9]
InvalidString(s) ==
    \/ Len(s) = 0
    \/ s[1] # Separator
    \/ \E i \in 1..(Len(s) - 1) : s[i] = Separator /\ s[i + 1] = Separator
    \/ \E i \in 1..Len(s) : s[i] \notin Alphanumeric \cup {Separator}

\* C30: Scope(string) raises ValueError exactly for the strings that are no
\* scope, and every component of a scope that was constructed is a
\* non-empty string of characters of the class.
C30_InvalidStringsRejected ==
    scopePc # "string" =>
        /\ scopePc = "error" <=> InvalidString(scopeString)
        /\ theScope.constructed =>
              \A i \in 1..Len(theScope.components) :
                  /\ Len(theScope.components[i]) > 0
                  /\ \A k \in 1..Len(theScope.components[i]) :
                        theScope.components[i][k] \in Alphanumeric

-----------------------------------------------------------------------------
(* rsb.transport: register_transport, get_transport_factory *)

\* the calls among the first n ended ones that registered a factory of the name
RegisteredBy(name, n) ==
    {c \in 1..n : /\ registerLog[c].outcome = "None"
                  /\ FactoryName(registerLog[c].factory) = name}

\* C31: register_transport raises ValueError exactly for None and for a
\* factory whose name an earlier call has registered; of the calls with
\* factories of one name, overlapping or not, at most one succeeds; the
\* dictionary keeps the factory of that call; and get_transport_factory
\* returns it.
C31_OneFactoryPerName ==
    /\ \A name \in TransportNames :
          /\ Cardinality(RegisteredBy(name, Len(registerLog))) <= 1
          /\ \A c \in RegisteredBy(name, Len(registerLog)) :
                factoriesByName[name] = registerLog[c].factory
          /\ RegisteredBy(name, Len(registerLog)) = {} => factoriesByName[name] = NoFactory
    /\ \A c \in 1..Len(registerLog) :
          registerLog[c].outcome = "ValueError" <=>
              \/ registerLog[c].factory = NoFactory
              \/ RegisteredBy(FactoryName(registerLog[c].factory), c - 1) # {}
    /\ \A l \in 1..Len(lookupLog) :
          LET by == RegisteredBy(lookupLog[l].name, lookupLog[l].registered)
          IN  /\ lookupLog[l].outcome = "KeyError" <=> by = {}
              /\ \A c \in by : lookupLog[l].returned = registerLog[c].factory

\* two threads have called register_transport with different factories
\* of one name: the first call has registered its factory, the
\* other has raised ValueError, and get_transport_factory has returned the
\* factory of the first
C31_Witness ==
    /\ Len(registerLog) >= 2
    /\ registerLog[1].outcome = "None"
    /\ registerLog[2].outcome = "ValueError"
    /\ registerLog[2].factory # NoFactory
    /\ registerLog[2].factory # registerLog[1].factory
    /\ registerLog[1].thread # registerLog[2].thread
    /\ \E l \in 1..Len(lookupLog) :
          /\ lookupLog[l].returned = registerLog[1].factory
          /\ lookupLog[l].registered >= 2

-----------------------------------------------------------------------------
(* OrderedQueueDispatcherPool: the queues and the scan *)

\* a message is taken from the queue of registration reg in this step
Pops(reg) == queue'[reg] # queue[reg] /\ Len(queue'[reg]) < Len(queue[reg])

\* C32: a worker that has claimed a registration and is at queue.get finds
\* the queue non-empty, the processing flag of the registration set and no
\* other worker with a claim on it, whether the registration is still in the
\* list or not; and a queue loses messages only one at a time, its first,
\* to the worker that is at queue.get with the claim, which then leaves
\* queue.get.
C32_SingleOwnerPops ==
    /\ [](\A w \in Workers :
            pc[w] = "get" =>
                /\ queue[job[w]] # <<>>
                /\ processing[job[w]]
                /\ \A other \in Workers \ {w} : ~Owns(other, job[w]))
    /\ [][\A reg \in RegIds :
            Pops(reg) =>
                /\ queue'[reg] = Tail(queue[reg])
                /\ processing[reg]
                /\ \E w \in Workers :
                      /\ pc[w] = "get" /\ job[w] = reg
                      /\ pc'[w] = "filter" /\ msg'[w] = Head(queue[reg])]_vars

\* a worker is at queue.get for a registration that was taken out of the
\* list after the claim, while the other worker has a claim on another
\* registration
C32_Witness ==
    \E w, other \in Workers :
        /\ pc[w] = "get"
        /\ job[w] \notin Registered
        /\ Owns(other, job[other])
        /\ job[other] # NoReg
        /\ job[other] # job[w]


\* worker w claims a registration in this step
Claims(w) == pc[w] = "locked" /\ pc'[w] = "get"

\* C33: with a fixed list of registrations, when a registration is claimed
\* again, no other registration has been claimable all the time since its
\* last claim without being claimed: the scan goes round the list from the
\* registration claimed last.
C33_RoundRobinClaims ==
    [][\A w \in Workers : Claims(w) => passed[job'[w]] = {}]_vars

\* a registration has been claimed for the second time, by a worker now at
\* queue.get, and the other registration, claimed in between, has a message
\* queued and is claimable again
C33_Witness ==
    \E w \in Workers : \E reg \in Registered :
        /\ pc[w] = "get"
        /\ job[w] # reg
        /\ Len(popped[job[w]]) >= 1
        /\ Len(popped[reg]) >= 1
        /\ reg \in passed[job[w]]


\* C34: after stop() followed by start(), every message that was in the queue
\* of a registration of the list when the pool was started again is taken and
\* handled without any further push: the workers of the restarted pool never
\* all wait for work while one of these messages has not been handled; and
\* the messages of a registration are taken in the order in which they were
\* pushed.
C34_RestartDeliversQueued ==
    /\ (/\ started /\ ctl = "idle" /\ lock = NoThread
        /\ \A w \in Workers : pc[w] = "wait")
            => \A pair \in restarts.queued : Handled(pair[1], pair[2])
    /\ \A reg \in Created : \A i \in 1..Len(popped[reg]) :
            popped[reg][i] = regFrom[reg] + i


\* C35: whenever the pool lock is free and some registration of the list has
\* a message queued and is not marked as processing, _jobsAvailable is True;
\* and the flag goes from True to False only in the step of a worker that
\* holds the lock, found no claimable registration in the whole list (an
\* empty list included) and goes to wait.
C35_WorkFlag ==
    /\ []((lock = NoThread /\ \E reg \in Registered : Claimable(reg))
              => jobsAvailable)
    /\ [][(jobsAvailable /\ ~jobsAvailable') =>
              \E w \in Workers :
                  /\ pc[w] = "locked" /\ pc'[w] = "wait"
                  /\ \A reg \in Registered : ~Claimable(reg)
                  /\ receivers' = receivers]_vars

\* a push to a pool that never had a registration has set the flag, and a
\* worker that scanned the empty list has cleared it and waits
C35_Witness ==
    /\ started /\ lock = NoThread
    /\ pushCount > 0 /\ nextReg = 0
    /\ ~jobsAvailable
    /\ \E w \in Workers : pc[w] = "wait"


\* C36: unregister_receiver returns also when the delivery function that a
\* worker is running for a registration calls it for the receiver of that
\* registration: the call never waits on the processing flag that only its
\* own worker, after the callback has returned, clears.
C36_UnregisterFromCallbackReturns ==
    \A w \in Workers :
        ~(/\ unreg.pc = "blocked"
          /\ unreg.caller = w
          /\ job[w] = unreg.removed)


\* C37: whenever the port is active, its current connection is a member of a
\* group if and only if the subscriber count stored for that group is
\* positive, also after a deactivate followed by a new activate.
C37_MembershipMatchesCounts ==
    connection # NoConnection =>
        \A g \in GroupNames :
            g \in membership <=> Count(groupNameSubscribers, g) > 0


\* C38: for every sequence of input fragments, malformed ones included,
\* AssemblyPool.add returns a completed message only when the assembly of the
\* key holds a fragment for every part index 0..requiredParts-1, and it
\* never fails with a lookup error.
C38_CompleteOnlyWithAllParts ==
    /\ [][\A t \in Adders :
            (adder[t].pc = "count" /\ adder'[t].pc = "delete") =>
                LET assembly == objects[adder[t].obj]
                IN  DOMAIN assembly.parts = 0..(assembly.requiredParts - 1)]_vars
    /\ [](\A c \in 1..Len(addLog) : addLog[c].result.kind # "KeyError")


\* C39: every call of getId on an Event with both identity fields set returns
\* the id derived from the sender id and the sequence number the event has
\* at the call; so calls made with different sequence numbers, as after two
\* publishes of the same Event object, return different ids.
C39_IdFollowsIdentity ==
    /\ \A c \in 1..Len(theEvent.log) :
          theEvent.log[c].returned =
              uuid5(theEvent.log[c].senderId, theEvent.log[c].sequenceNumber)
    /\ \A c, d \in 1..Len(theEvent.log) :
          theEvent.log[c].sequenceNumber # theEvent.log[d].sequenceNumber =>
              theEvent.log[c].returned # theEvent.log[d].returned


\* C40: events published concurrently through one Informer are handed to the
\* router in increasing order of their sequence numbers.
C40_RoutedInSequenceOrder ==
    \A c, d \in 1..Len(published) :
        c < d => published[c].sequenceNumber < published[d].sequenceNumber
=============================================================================
